---- MODULE Spec2Model ----
(***************************************************************************)
(* Data-ink ratio calculator: the layered analysis engine                  *)
(* (src/src/utils/analysis.ts), the magic-wand region grower               *)
(* (src/src/utils/floodFill.ts) and the comparison engine                  *)
(* (src/src/utils/comparison.ts).                                          *)
(*                                                                         *)
(* analyzeImage is a pure function of a raster, an ordered list of         *)
(* selection boxes, a background colour and an ink threshold.  Its state   *)
(* machine records the arguments and the result of the most recent call;   *)
(* each action is one call whose region list, background or threshold      *)
(* differs from the previous call's by one edit the caller can make.       *)
(* floodFill is modelled one iteration of its work-list loop at a time;    *)
(* isInkPixel and compareToReference are modelled one call at a time.      *)
(* The CSV export of a result, analyzeImage taken one iteration of its     *)
(* selection loop at a time, the magic wand of the canvas                  *)
(* (src/src/components/ImageCanvas.tsx) and the page that holds the        *)
(* selections, their undo history and the deferred analysis                *)
(* (src/src/pages/Index.tsx) follow.                                       *)
(* Each component has its own specification; the variables of the other    *)
(* components stay at rest in it.                                          *)
(***************************************************************************)
EXTENDS Integers, Sequences, FiniteSets, TLC

VARIABLES
  \* analyzeImage: the arguments and the result of the latest call
  imageData, selections, backgroundColor, inkThreshold, result,
  \* isInkPixel: the sample of the latest call and the value returned
  pixel, isInk,
  \* floodFill: the arguments of the call in progress, its locals, the
  \* indexes of imageData.data it has read, the position in its body, the
  \* value returned, and the value the preceding call returned when that
  \* call had the same arguments
  call, stack, visited, box, reads, pc, returned, previous,
  \* compareToReference: the arguments of the latest call and its outcome
  userResult, reference, outcome,
  \* exportToCSV: the text returned by the latest call
  csv,
  \* analyzeImage taken one loop iteration at a time: processedPixels,
  \* layers, the loop index i, totalInkPixels, the position in the body,
  \* and the result the preceding call returned when that call had the
  \* same arguments
  processed, layerList, index, inkTotal, step, earlier,
  \* the Index page: its React state, the isUpdatingFromHistory ref,
  \* whether the history effect is due, the setTimeout callbacks waiting
  \* to run, and the number of images opened so far
  imageUrl, pageImageData, pageSelections, history, historyIndex,
  isUpdatingFromHistory, effectDue, analysisResult, isAnalyzing, timers,
  opened

analysisVars == <<imageData, selections, backgroundColor, inkThreshold, result>>

classifierVars == <<pixel, isInk>>

fillVars == <<call, stack, visited, box, reads, pc, returned, previous>>

comparisonVars == <<userResult, reference, outcome>>

exportVars == <<csv>>

loopVars == <<processed, layerList, index, inkTotal, step, earlier>>

pageVars ==
  <<imageUrl, pageImageData, pageSelections, history, historyIndex,
    isUpdatingFromHistory, effectDue, analysisResult, isAnalyzing, timers,
    opened>>

vars ==
  <<analysisVars, classifierVars, fillVars, comparisonVars, exportVars,
    loopVars, pageVars>>

----------------------------------------------------------------------------
(* Bounds of the model. *)

Width == 3

Height == 2

MaxSelections == 2

----------------------------------------------------------------------------
(* Numbers.  SelectionBox coordinates are JavaScript numbers and may be    *)
(* fractional (the canvas supplies image coordinates divided by the zoom   *)
(* scale); the model carries them as integers counted in 1/Unit of a       *)
(* pixel, so Math.floor and Math.ceil are real conversions.                *)

Unit == 2

Max(a, b) == IF a >= b THEN a ELSE b

Min(a, b) == IF a <= b THEN a ELSE b

\* Math.floor of a coordinate given in 1/Unit pixels, as a pixel number
Floor(v) == v \div Unit

\* Math.ceil of a coordinate given in 1/Unit pixels, as a pixel number
Ceil(v) == -((-v) \div Unit)

\* a / b of two pixel counts as JavaScript computes it: a finite quotient
\* (kept as the exact fraction), or NaN for 0/0, or Infinity for a/0
Quotient(a, b) ==
  IF b # 0 THEN [kind |-> "finite", num |-> a, den |-> b]
  ELSE IF a = 0 THEN [kind |-> "NaN", num |-> 0, den |-> 0]
  ELSE [kind |-> "Infinity", num |-> a, den |-> 0]

\* the literal 0 of the ratio guards
ZeroRatio == [kind |-> "finite", num |-> 0, den |-> 1]

----------------------------------------------------------------------------
(* The ink classifier. *)

AlphaFloor == 13

\* the radicand of colorDistance: the squared Euclidean RGB distance
colorDistanceSq(r1, g1, b1, r2, g2, b2) ==
  (r1 - r2) * (r1 - r2) + (g1 - g2) * (g1 - g2) + (b1 - b2) * (b1 - b2)

\* Math.sqrt(d2) > t for an integer radicand d2 and an integer threshold t:
\* the square root is never negative, and for t >= 0 it exceeds t exactly
\* when d2 exceeds t*t
DistanceExceeds(d2, t) == IF t < 0 THEN TRUE ELSE d2 > t * t

\* a variant of isInkPixel that also classifies a pixel exactly at the
\* threshold distance as ink
isInkPixelAtThreshold(r, g, b, a, bgColor, threshold) ==
  IF a < AlphaFloor THEN FALSE
  ELSE colorDistanceSq(r, g, b, bgColor.r, bgColor.g, bgColor.b)
         >= threshold * threshold

isInkPixel(r, g, b, a, bgColor, threshold) ==
  IF a < AlphaFloor THEN FALSE
  ELSE DistanceExceeds(colorDistanceSq(r, g, b, bgColor.r, bgColor.g, bgColor.b),
                       threshold)

\* data is the flat RGBA byte array, held as a sequence (data[idx] of the
\* code is data[idx + 1] here); x and y are whole pixels at every call site
getPixelData(img, x, y) ==
  LET clampedX == Max(0, Min(img.width - 1, x))
      clampedY == Max(0, Min(img.height - 1, y))
      idx == (clampedY * img.width + clampedX) * 4
  IN <<img.data[idx + 1], img.data[idx + 2], img.data[idx + 3], img.data[idx + 4]>>

PixelIsInk(img, x, y, bgColor, threshold) ==
  LET p == getPixelData(img, x, y)
  IN isInkPixel(p[1], p[2], p[3], p[4], bgColor, threshold)

----------------------------------------------------------------------------
(* analyzeImage *)

\* InkScan with the row scan stopping one pixel early (x < width - 1)
RECURSIVE InkScanShortRow(_, _, _, _, _, _)
InkScanShortRow(img, bgColor, threshold, y, x, count) ==
  IF y >= img.height THEN count
  ELSE IF x >= img.width - 1
    THEN InkScanShortRow(img, bgColor, threshold, y + 1, 0, count)
  ELSE InkScanShortRow(img, bgColor, threshold, y, x + 1,
         IF PixelIsInk(img, x, y, bgColor, threshold) THEN count + 1 ELSE count)

\* the whole-image scan: for y in 0..height-1, for x in 0..width-1
RECURSIVE InkScan(_, _, _, _, _, _)
InkScan(img, bgColor, threshold, y, x, count) ==
  IF y >= img.height THEN count
  ELSE IF x >= img.width THEN InkScan(img, bgColor, threshold, y + 1, 0, count)
  ELSE InkScan(img, bgColor, threshold, y, x + 1,
               IF PixelIsInk(img, x, y, bgColor, threshold) THEN count + 1 ELSE count)

\* PixelBounds with the end floored instead of ceiled
PixelBoundsFloorEnd(img, sel) ==
  [x1 |-> Max(0, Floor(sel.x)),
   y1 |-> Max(0, Floor(sel.y)),
   x2 |-> Min(img.width, Floor(sel.x + sel.width)),
   y2 |-> Min(img.height, Floor(sel.y + sel.height))]

\* PixelBounds without the clamp of the start to 0
PixelBoundsUnclampedStart(img, sel) ==
  [x1 |-> Floor(sel.x),
   y1 |-> Floor(sel.y),
   x2 |-> Min(img.width, Ceil(sel.x + sel.width)),
   y2 |-> Min(img.height, Ceil(sel.y + sel.height))]

\* a variant of PixelBounds that does not limit x2 and y2 to the raster
PixelBoundsUnclampedEnd(img, sel) ==
  [x1 |-> Max(0, Floor(sel.x)),
   y1 |-> Max(0, Floor(sel.y)),
   x2 |-> Ceil(sel.x + sel.width),
   y2 |-> Ceil(sel.y + sel.height)]

\* the integer pixel bounds of a selection, clamped to the image
PixelBounds(img, sel) ==
  [x1 |-> Max(0, Floor(sel.x)),
   y1 |-> Max(0, Floor(sel.y)),
   x2 |-> Min(img.width, Ceil(sel.x + sel.width)),
   y2 |-> Min(img.height, Ceil(sel.y + sel.height))]

\* LayerScan applying the ink test whether or not countFullArea is set
RECURSIVE LayerScanInkOnly(_, _, _, _, _, _, _, _)
LayerScanInkOnly(img, sel, bnd, bgColor, threshold, py, px, acc) ==
  IF py >= bnd.y2 THEN acc
  ELSE IF px >= bnd.x2
    THEN LayerScanInkOnly(img, sel, bnd, bgColor, threshold, py + 1, bnd.x1, acc)
  ELSE IF <<px, py>> \in acc.processedPixels
    THEN LayerScanInkOnly(img, sel, bnd, bgColor, threshold, py, px + 1, acc)
  ELSE LayerScanInkOnly(img, sel, bnd, bgColor, threshold, py, px + 1,
         [processedPixels |-> acc.processedPixels \cup {<<px, py>>},
          layerTotalPixels |-> acc.layerTotalPixels + 1,
          layerInkPixels |->
            IF PixelIsInk(img, px, py, bgColor, threshold)
              THEN acc.layerInkPixels + 1
            ELSE acc.layerInkPixels])

\* LayerScan without the processedPixels.has(pixelKey) skip
RECURSIVE LayerScanNoSkip(_, _, _, _, _, _, _, _)
LayerScanNoSkip(img, sel, bnd, bgColor, threshold, py, px, acc) ==
  IF py >= bnd.y2 THEN acc
  ELSE IF px >= bnd.x2
    THEN LayerScanNoSkip(img, sel, bnd, bgColor, threshold, py + 1, bnd.x1, acc)
  ELSE LayerScanNoSkip(img, sel, bnd, bgColor, threshold, py, px + 1,
         [processedPixels |-> acc.processedPixels \cup {<<px, py>>},
          layerTotalPixels |-> acc.layerTotalPixels + 1,
          layerInkPixels |->
            IF sel.countFullArea THEN acc.layerInkPixels + 1
            ELSE IF PixelIsInk(img, px, py, bgColor, threshold)
              THEN acc.layerInkPixels + 1
            ELSE acc.layerInkPixels])

\* LayerScan counting a pixel for the layer before the
\* processedPixels.has(pixelKey) test
RECURSIVE LayerScanCountingSkipped(_, _, _, _, _, _, _, _)
LayerScanCountingSkipped(img, sel, bnd, bgColor, threshold, py, px, acc) ==
  IF py >= bnd.y2 THEN acc
  ELSE IF px >= bnd.x2
    THEN LayerScanCountingSkipped(img, sel, bnd, bgColor, threshold,
                                  py + 1, bnd.x1, acc)
  ELSE IF <<px, py>> \in acc.processedPixels
    THEN LayerScanCountingSkipped(img, sel, bnd, bgColor, threshold, py, px + 1,
           [acc EXCEPT !.layerTotalPixels = @ + 1])
  ELSE LayerScanCountingSkipped(img, sel, bnd, bgColor, threshold, py, px + 1,
         [processedPixels |-> acc.processedPixels \cup {<<px, py>>},
          layerTotalPixels |-> acc.layerTotalPixels + 1,
          layerInkPixels |->
            IF sel.countFullArea THEN acc.layerInkPixels + 1
            ELSE IF PixelIsInk(img, px, py, bgColor, threshold)
              THEN acc.layerInkPixels + 1
            ELSE acc.layerInkPixels])

\* the pixel loop of one selection: for py in y1..y2-1, for px in x1..x2-1.
\* acc carries processedPixels, layerTotalPixels and layerInkPixels; the key
\* "px,py" of a whole-pixel pair is held as the pair itself
RECURSIVE LayerScan(_, _, _, _, _, _, _, _)
LayerScan(img, sel, bnd, bgColor, threshold, py, px, acc) ==
  IF py >= bnd.y2 THEN acc
  ELSE IF px >= bnd.x2
    THEN LayerScan(img, sel, bnd, bgColor, threshold, py + 1, bnd.x1, acc)
  ELSE IF <<px, py>> \in acc.processedPixels
    THEN LayerScan(img, sel, bnd, bgColor, threshold, py, px + 1, acc)
  ELSE LayerScan(img, sel, bnd, bgColor, threshold, py, px + 1,
         [processedPixels |-> acc.processedPixels \cup {<<px, py>>},
          layerTotalPixels |-> acc.layerTotalPixels + 1,
          layerInkPixels |->
            IF sel.countFullArea THEN acc.layerInkPixels + 1
            ELSE IF PixelIsInk(img, px, py, bgColor, threshold)
              THEN acc.layerInkPixels + 1
            ELSE acc.layerInkPixels])

\* layers.push(layer)
Push(layers, layer) == Append(layers, layer)

\* layers.unshift(layer)
Unshift(layers, layer) == <<layer>> \o layers

\* the selection loop: for i = selections.length - 1 down to 0 (positions
\* are 1-based here, so the loop runs while i > 0), threading processedPixels
\* and layers.  The loop's state after the iteration of position stop + 1
\* is SelectionLoop(.., Len(sels), stop, {}, <<>>); the code runs to stop = 0.
RECURSIVE SelectionLoop(_, _, _, _, _, _, _, _)
SelectionLoop(img, sels, bgColor, threshold, i, stop, processedPixels, layers) ==
  IF i <= stop THEN [layers |-> layers, processedPixels |-> processedPixels]
  ELSE
    LET sel == sels[i]
        bnd == PixelBounds(img, sel)
        acc == LayerScan(img, sel, bnd, bgColor, threshold, bnd.y1, bnd.x1,
                         [processedPixels |-> processedPixels,
                          layerTotalPixels |-> 0,
                          layerInkPixels |-> 0])
        layer == [id |-> sel.id, label |-> sel.label, color |-> sel.color,
                  isData |-> sel.isData,
                  totalPixels |-> acc.layerTotalPixels,
                  inkPixels |-> acc.layerInkPixels,
                  countFullArea |-> sel.countFullArea]
    IN SelectionLoop(img, sels, bgColor, threshold, i - 1, stop,
                     acc.processedPixels, Unshift(layers, layer))

\* Aggregate adding the layer's totalPixels to the non-data total
RECURSIVE AggregateNonDataArea(_, _, _)
AggregateNonDataArea(layers, k, totals) ==
  IF k > Len(layers) THEN totals
  ELSE AggregateNonDataArea(layers, k + 1,
         IF layers[k].isData
           THEN [totals EXCEPT !.data = @ + layers[k].inkPixels]
           ELSE [totals EXCEPT !.nonData = @ + layers[k].totalPixels])

\* layers.forEach: the data / non-data totals, accumulated left to right
RECURSIVE Aggregate(_, _, _)
Aggregate(layers, k, totals) ==
  IF k > Len(layers) THEN totals
  ELSE Aggregate(layers, k + 1,
         IF layers[k].isData
           THEN [totals EXCEPT !.data = @ + layers[k].inkPixels]
           ELSE [totals EXCEPT !.nonData = @ + layers[k].inkPixels])

\* the ratio guarded on its numerator instead of its denominator
NumeratorGuardedRatio(numerator, denominator) ==
  IF numerator > 0 THEN Quotient(numerator, denominator) ELSE ZeroRatio

\* the ratio without a guard
UnguardedRatio(numerator, denominator) == Quotient(numerator, denominator)

\* denominator > 0 ? numerator / denominator : 0
GuardedRatio(numerator, denominator) ==
  IF denominator > 0 THEN Quotient(numerator, denominator) ELSE ZeroRatio

analyzeImage(img, sels, bgColor, threshold) ==
  LET totalImagePixels == img.width * img.height
      totalInkPixels == InkScan(img, bgColor, threshold, 0, 0, 0)
      layers ==
        SelectionLoop(img, sels, bgColor, threshold, Len(sels), 0, {}, <<>>).layers
      totals == Aggregate(layers, 1, [data |-> 0, nonData |-> 0])
      densityRatio == GuardedRatio(totals.data, totalImagePixels)
      efficiencyRatio == GuardedRatio(totals.data, totalInkPixels)
  IN [layers |-> layers,
      totalImagePixels |-> totalImagePixels,
      totalInkPixels |-> totalInkPixels,
      totalDataPixels |-> totals.data,
      totalNonDataPixels |-> totals.nonData,
      densityRatio |-> densityRatio,
      efficiencyRatio |-> efficiencyRatio]

----------------------------------------------------------------------------
(* The inputs the calls are made with. *)

\* RGBA samples
White == <<255, 255, 255, 255>>

\* exactly 30 away from white
Faint == <<225, 255, 255, 255>>

Dark == <<0, 0, 0, 255>>

\* dark, with alpha just below the opacity floor
Ghost == <<0, 0, 0, 12>>

PaintBlank(x, y) == White

PaintMixed(x, y) ==
  IF (x + y) % 3 = 0 THEN Dark ELSE IF (x + y) % 3 = 1 THEN Faint ELSE Ghost

\* samples for the region grower: a base colour, one exactly 30 away from
\* it, one 60 away from it, and the base colour below the opacity floor
Base == <<100, 100, 100, 255>>

Near == <<130, 100, 100, 255>>

Far == <<160, 100, 100, 255>>

Clear == <<100, 100, 100, 12>>

\* vertical bands: dark, base, near, far, clear, dark
PaintBands(x, y) ==
  IF x = 1 THEN Base ELSE IF x = 2 THEN Near ELSE IF x = 3 THEN Far
  ELSE IF x = 4 THEN Clear ELSE Dark

\* the bands with the top of the base band cleared
PaintNotched(x, y) == IF x = 1 /\ y = 0 THEN Clear ELSE PaintBands(x, y)

\* the base colour with two dark pixels that touch at a corner only
PaintIslands(x, y) ==
  IF (x = 3 /\ y = 2) \/ (x = 4 /\ y = 3) THEN Dark ELSE Base

Paint(kind, x, y) ==
  IF kind = "blank" THEN PaintBlank(x, y)
  ELSE IF kind = "mixed" THEN PaintMixed(x, y)
  ELSE IF kind = "bands" THEN PaintBands(x, y)
  ELSE IF kind = "notched" THEN PaintNotched(x, y)
  ELSE PaintIslands(x, y)

\* an ImageData of w x h pixels: row-major, 4 bytes per pixel
Raster(w, h, kind) ==
  [width |-> w, height |-> h,
   data |-> [k \in 1..(4 * w * h) |->
               Paint(kind, ((k - 1) \div 4) % w, ((k - 1) \div 4) \div w)
                 [((k - 1) % 4) + 1]]]

Rasters ==
  {Raster(Width, Height, "blank"), Raster(Width, Height, "mixed"),
   Raster(0, 0, "blank")}

DefaultInkThreshold == 30

BackgroundColors == {[r |-> 255, g |-> 255, b |-> 255], [r |-> 0, g |-> 0, b |-> 0]}

InkThresholds == {DefaultInkThreshold}

\* the components a selection is drawn for (name, isData, color)
Components ==
  {[name |-> "Bars", isData |-> TRUE, color |-> "#3b82f6"],
   [name |-> "Gridlines", isData |-> FALSE, color |-> "#94a3b8"]}

\* <<start, extent>> pairs in 1/Unit pixels, along x and along y.  A drawn
\* box has non-negative extents; resizing can leave negative ones.
DrawnXSpans ==
  {<<0, Width * Unit>>, <<1, Unit>>, <<Unit + 1, Unit>>, <<-Unit, Unit + 1>>}

ResizedXSpans == DrawnXSpans \cup {<<Width * Unit, -(2 * Unit)>>}

DrawnYSpans == {<<0, Unit>>, <<Unit, (Height - 1) * Unit>>}

ResizedYSpans == DrawnYSpans \cup {<<Height * Unit, -Unit>>}

SelectionIds == 1..MaxSelections

UsedIds(sels) == {sels[i].id : i \in 1..Len(sels)}

\* a fresh id (the code draws `sel-${Date.now()}-${random}`)
FreshId(sels) ==
  CHOOSE k \in SelectionIds \ UsedIds(sels) :
    \A j \in SelectionIds \ UsedIds(sels) : k <= j

\* arrayMove(list, from, to)
RemoveAt(list, i) == SubSeq(list, 1, i - 1) \o SubSeq(list, i + 1, Len(list))

InsertAt(list, i, e) == SubSeq(list, 1, i - 1) \o <<e>> \o SubSeq(list, i, Len(list))

ArrayMove(list, from, to) == InsertAt(RemoveAt(list, from), to, list[from])

----------------------------------------------------------------------------
(* The state machine: the arguments and the result of the latest call. *)

\* what the result of floodFill holds while no call has returned
Pending == [kind |-> "pending"]

\* no pixel has been classified on its own
ClassifierAtRest == pixel = <<>> /\ isInk = FALSE

\* no floodFill call is in progress or has returned
FillAtRest ==
  /\ call = <<>> /\ stack = <<>> /\ visited = {} /\ box = <<>> /\ reads = {}
  /\ pc = "idle" /\ returned = Pending /\ previous = Pending

\* a value that is null or undefined
Absent == [present |-> FALSE]

\* no comparison has been asked for
ComparisonAtRest ==
  userResult = Absent /\ reference = Absent /\ outcome = [kind |-> "none"]

\* nothing has been exported
ExportAtRest == csv = <<>>

\* no step-by-step call of analyzeImage is in progress or has returned
LoopAtRest ==
  /\ processed = {} /\ layerList = <<>> /\ index = 0 /\ inkTotal = 0
  /\ step = "idle" /\ earlier = Pending

\* the Index page as it is mounted: no image, no selections, a history
\* holding the empty list
PageAtRest ==
  /\ imageUrl = 0 /\ pageImageData = 0 /\ pageSelections = <<>>
  /\ history = <<<<>>>> /\ historyIndex = 0
  /\ isUpdatingFromHistory = FALSE /\ effectDue = FALSE
  /\ analysisResult = Absent /\ isAnalyzing = FALSE /\ timers = <<>>
  /\ opened = 0

\* the components added to the model after the first four are at rest
OthersAtRest == ExportAtRest /\ LoopAtRest /\ PageAtRest

Init ==
  /\ imageData \in Rasters
  /\ selections = <<>>
  /\ backgroundColor \in BackgroundColors
  /\ inkThreshold \in InkThresholds
  /\ result = analyzeImage(imageData, selections, backgroundColor, inkThreshold)
  /\ ClassifierAtRest /\ FillAtRest /\ ComparisonAtRest
  /\ OthersAtRest

\* analyzeImage(imageData, sels, backgroundColor, inkThreshold)
Analyze(sels) ==
  /\ selections' = sels
  /\ result' = analyzeImage(imageData, sels, backgroundColor, inkThreshold)
  /\ UNCHANGED <<imageData, backgroundColor, inkThreshold>>
  /\ UNCHANGED <<classifierVars, fillVars, comparisonVars>>
  /\ UNCHANGED <<exportVars, loopVars, pageVars>>

\* a box is drawn on the canvas and the list analysed
AnalyzeDrawn ==
  /\ Len(selections) < MaxSelections
  /\ \E xs \in DrawnXSpans, ys \in DrawnYSpans, c \in Components :
       Analyze(Append(selections,
                 [id |-> FreshId(selections),
                  x |-> xs[1], y |-> ys[1], width |-> xs[2], height |-> ys[2],
                  label |-> c.name, color |-> c.color, isData |-> c.isData,
                  countFullArea |-> FALSE]))

\* a box is resized by its handles and the list analysed
AnalyzeResizedX ==
  \E i \in 1..Len(selections), xs \in ResizedXSpans :
    Analyze([selections EXCEPT ![i] = [@ EXCEPT !.x = xs[1], !.width = xs[2]]])

AnalyzeResizedY ==
  \E i \in 1..Len(selections), ys \in ResizedYSpans :
    Analyze([selections EXCEPT ![i] = [@ EXCEPT !.y = ys[1], !.height = ys[2]]])

\* Count Full Area is toggled in the classification table
AnalyzeToggled ==
  \E i \in 1..Len(selections) :
    Analyze([selections EXCEPT ![i].countFullArea = ~@])

\* a selection is deleted
AnalyzeDeleted ==
  \E i \in 1..Len(selections) : Analyze(RemoveAt(selections, i))

\* a selection is dragged to another place in the list
AnalyzeReordered ==
  \E i \in 1..Len(selections), j \in 1..Len(selections) :
    /\ i < j
    /\ Analyze(ArrayMove(selections, i, j))

\* the same list is analysed against another background colour
AnalyzeBackground ==
  \E c \in BackgroundColors :
    /\ c # backgroundColor
    /\ backgroundColor' = c
    /\ result' = analyzeImage(imageData, selections, c, inkThreshold)
    /\ UNCHANGED <<imageData, selections, inkThreshold>>
    /\ UNCHANGED <<classifierVars, fillVars, comparisonVars>>
    /\ UNCHANGED <<exportVars, loopVars, pageVars>>

Next ==
  \/ AnalyzeDrawn
  \/ AnalyzeResizedX
  \/ AnalyzeResizedY
  \/ AnalyzeToggled
  \/ AnalyzeDeleted
  \/ AnalyzeReordered
  \/ AnalyzeBackground

Spec == Init /\ [][Next]_vars

----------------------------------------------------------------------------
(* Vocabulary of the properties: pixel sets, stated independently of the   *)
(* loops that count them.                                                  *)

Pixels(img) == (0..(img.width - 1)) \X (0..(img.height - 1))

\* the clamped pixel rectangle of a selection, stated on the plane: the
\* pixels of the image whose unit square [px, px + 1) x [py, py + 1) reaches
\* past the box's start and begins before its end (start + extent), which
\* is floor(start) <= px < ceil(end) on each axis
ClampedRect(img, sel) ==
  {p \in Pixels(img) :
     /\ sel.x < (p[1] + 1) * Unit /\ p[1] * Unit < sel.x + sel.width
     /\ sel.y < (p[2] + 1) * Unit /\ p[2] * Unit < sel.y + sel.height}

\* processedPixels once the selections at positions above k have been scanned
ProcessedAfter(k) ==
  SelectionLoop(imageData, selections, backgroundColor, inkThreshold,
                Len(selections), k, {}, <<>>).processedPixels

\* the pixels the iteration of position i adds to processedPixels
Claimed(i) == ProcessedAfter(i - 1) \ ProcessedAfter(i)

Positions == 1..Len(selections)

\* the positions whose clamped rectangle contains pixel p
Containing(p) == {i \in Positions : p \in ClampedRect(imageData, selections[i])}

Topmost(p) == CHOOSE i \in Containing(p) : \A j \in Containing(p) : j <= i

InkPixelsOf(img, bgColor, threshold) ==
  {p \in Pixels(img) : PixelIsInk(img, p[1], p[2], bgColor, threshold)}

RECURSIVE SumOver(_, _)
SumOver(f, S) ==
  IF S = {} THEN 0
  ELSE LET e == CHOOSE e \in S : TRUE IN f[e] + SumOver(f, S \ {e})

LayerTotals == [i \in Positions |-> result.layers[i].totalPixels]

LayerInks == [i \in Positions |-> result.layers[i].inkPixels]

----------------------------------------------------------------------------
(* C1: a pixel inside the clamped rectangles of two or more selections is  *)
(* counted in the totalPixels of the selection with the highest input      *)
(* position among those containing it, and in no other selection's:        *)
(* every layer's totalPixels is the number of pixels its iteration         *)
(* claimed, and a contested pixel is claimed by the topmost selection      *)
(* containing it and by no other.                                          *)
TopmostWins ==
  /\ Len(result.layers) = Len(selections)
  /\ \A i \in Positions : result.layers[i].totalPixels = Cardinality(Claimed(i))
  /\ \A p \in Pixels(imageData) :
       Cardinality(Containing(p)) >= 2 =>
         \A i \in Positions : (p \in Claimed(i)) <=> (i = Topmost(p))

\* two overlapping selections, the lower one keeping some pixels of its own
TopmostWinsWitness ==
  /\ Len(selections) = 2
  /\ \E p \in Pixels(imageData) : Containing(p) = {1, 2}
  /\ result.layers[1].totalPixels > 0
  /\ result.layers[2].totalPixels > result.layers[1].totalPixels

----------------------------------------------------------------------------
(* C3: totalInkPixels is the number of pixels of the whole raster that     *)
(* isInkPixel classifies as ink for the background and threshold of the    *)
(* call, whatever the region list is (so it is the same for any two region *)
(* lists on the same raster and settings); it is not the sum of the        *)
(* layers' inkPixels.                                                      *)
TotalInkIsWholeImage ==
  result.totalInkPixels =
    Cardinality(InkPixelsOf(imageData, backgroundColor, inkThreshold))

\* regions are present and their ink adds up to something else
TotalInkIsWholeImageWitness ==
  /\ Len(selections) = 2
  /\ result.totalInkPixels > 0
  /\ SumOver(LayerInks, Positions) > 0
  /\ result.totalInkPixels # SumOver(LayerInks, Positions)

----------------------------------------------------------------------------
(* Geometry of the selections as rectangles of the plane, in 1/Unit pixels *)

\* the rectangle with canonical top-left corner and non-negative extents
Normalized(sel) ==
  [sel EXCEPT !.x = Min(sel.x, sel.x + sel.width),
              !.width = IF sel.width < 0 THEN -sel.width ELSE sel.width,
              !.y = Min(sel.y, sel.y + sel.height),
              !.height = IF sel.height < 0 THEN -sel.height ELSE sel.height]

NormalizedRect(img, sel) == ClampedRect(img, Normalized(sel))

InsideBuffer(img, sel) ==
  LET n == Normalized(sel)
  IN /\ 0 <= n.x /\ n.x + n.width <= img.width * Unit
     /\ 0 <= n.y /\ n.y + n.height <= img.height * Unit

\* the two rectangles share interior points
Overlapping(a, b) ==
  LET m == Normalized(a)
      n == Normalized(b)
  IN /\ m.x < n.x + n.width /\ n.x < m.x + m.width
     /\ m.y < n.y + n.height /\ n.y < m.y + m.height

NonOverlappingInside ==
  /\ \A i \in Positions : InsideBuffer(imageData, selections[i])
  /\ \A i, j \in Positions : i < j => ~Overlapping(selections[i], selections[j])

NonNegativeExtents == \A i \in Positions :
  selections[i].width >= 0 /\ selections[i].height >= 0

WholePixelCoordinates == \A i \in Positions :
  /\ selections[i].x % Unit = 0 /\ selections[i].width % Unit = 0
  /\ selections[i].y % Unit = 0 /\ selections[i].height % Unit = 0

\* the areas of the rectangles, in squares of 1/Unit pixel
Areas == [i \in Positions |->
            Normalized(selections[i]).width * Normalized(selections[i]).height]

UnionOfClampedRects ==
  UNION {ClampedRect(imageData, selections[i]) : i \in Positions}

----------------------------------------------------------------------------
(* C2, as stated (on boxes with non-negative extents): for pairwise        *)
(* non-overlapping regions inside the buffer, whose coordinates may be     *)
(* fractional, the sum of the layers' totalPixels equals the area of the   *)
(* union of the region rectangles.                                         *)
SumEqualsUnionArea ==
  (NonOverlappingInside /\ NonNegativeExtents) =>
    Unit * Unit * SumOver(LayerTotals, Positions) = SumOver(Areas, Positions)

(* C2, amended: for pairwise non-overlapping regions inside the buffer,    *)
(* the sum of the layers' totalPixels equals the number of pixels in the   *)
(* union of the regions' clamped pixel rectangles (floor of the start to   *)
(* ceil of the end, as analyzeImage computes them), and every pixel of     *)
(* that union is counted in exactly one layer; the sum is the area of the  *)
(* union of the region rectangles when the coordinates are whole pixels    *)
(* and the extents non-negative.                                           *)
SumEqualsPixelUnion ==
  NonOverlappingInside =>
    /\ SumOver(LayerTotals, Positions) = Cardinality(UnionOfClampedRects)
    /\ \A i \in Positions : result.layers[i].totalPixels = Cardinality(Claimed(i))
    /\ \A p \in UnionOfClampedRects :
         Cardinality({i \in Positions : p \in Claimed(i)}) = 1
    /\ (WholePixelCoordinates /\ NonNegativeExtents) =>
         Unit * Unit * SumOver(LayerTotals, Positions) = SumOver(Areas, Positions)

\* two non-overlapping boxes side by side with fractional edges, whose pixel
\* rectangles share a column
SumEqualsPixelUnionWitness ==
  /\ Len(selections) = 2
  /\ NonOverlappingInside /\ NonNegativeExtents
  /\ ~WholePixelCoordinates
  /\ ClampedRect(imageData, selections[1]) \cap ClampedRect(imageData, selections[2]) # {}
  /\ result.layers[1].totalPixels > 0
  /\ result.layers[2].totalPixels > 0

----------------------------------------------------------------------------
\* the pixels of the normalized rectangle at position i that no normalized
\* rectangle above it contains
NormalizedExclusive(i) ==
  NormalizedRect(imageData, selections[i]) \
    UNION {NormalizedRect(imageData, selections[j]) : j \in (i + 1)..Len(selections)}

(* C4: analyzeImage normalizes region rectangles before any geometry or    *)
(* exclusivity logic: a region with negative width and/or height produces  *)
(* the same totalPixels and inkPixels, and claims the same pixels against  *)
(* lower regions, as the region with canonical top-left corner and         *)
(* positive extents.                                                       *)
CountsAsNormalized ==
  \A i \in Positions :
    /\ result.layers[i].totalPixels = Cardinality(NormalizedExclusive(i))
    /\ result.layers[i].inkPixels =
         IF selections[i].countFullArea
           THEN Cardinality(NormalizedExclusive(i))
           ELSE Cardinality(NormalizedExclusive(i) \cap
                  InkPixelsOf(imageData, backgroundColor, inkThreshold))

----------------------------------------------------------------------------
(* C5: for every region with countFullArea set, the layer's inkPixels      *)
(* equals its exclusive totalPixels whatever the pixels' colour or alpha;  *)
(* for every region without it, inkPixels equals the number of its         *)
(* exclusively claimed pixels that isInkPixel classifies as ink.           *)
FullAreaOrInk ==
  \A i \in Positions :
    /\ result.layers[i].totalPixels = Cardinality(Claimed(i))
    /\ result.layers[i].inkPixels =
         IF selections[i].countFullArea
           THEN result.layers[i].totalPixels
           ELSE Cardinality(Claimed(i) \cap
                  InkPixelsOf(imageData, backgroundColor, inkThreshold))

\* a full-area layer over pixels that are not all ink, above a layer that
\* keeps both ink and non-ink pixels of its own
FullAreaOrInkWitness ==
  /\ Len(selections) = 2
  /\ selections[2].countFullArea
  /\ Claimed(2) \ InkPixelsOf(imageData, backgroundColor, inkThreshold) # {}
  /\ result.layers[2].inkPixels > 0
  /\ ~selections[1].countFullArea
  /\ result.layers[1].inkPixels > 0
  /\ result.layers[1].inkPixels < result.layers[1].totalPixels

----------------------------------------------------------------------------
DataPositions == {i \in Positions : result.layers[i].isData}

(* C6: totalDataPixels is the sum of inkPixels over the layers with isData *)
(* true, totalNonDataPixels the sum over the layers with isData false, so  *)
(* the two add up to the sum of all layers' inkPixels.                     *)
TotalsAreLayerSums ==
  /\ result.totalDataPixels = SumOver(LayerInks, DataPositions)
  /\ result.totalNonDataPixels = SumOver(LayerInks, Positions \ DataPositions)
  /\ result.totalDataPixels + result.totalNonDataPixels
       = SumOver(LayerInks, Positions)

\* a data layer and a non-data layer, the latter with fewer ink pixels than
\* pixels
TotalsAreLayerSumsWitness ==
  /\ Len(selections) = 2
  /\ result.layers[1].isData /\ ~result.layers[2].isData
  /\ result.totalDataPixels > 0
  /\ result.totalNonDataPixels > 0
  /\ result.layers[2].inkPixels < result.layers[2].totalPixels

----------------------------------------------------------------------------
(* C7: analyzeImage returns exactly one LayerResult per input region, and  *)
(* layers[i] carries the id, label, color, isData and countFullArea of     *)
(* selections[i]: the output is in the caller's input order.               *)
LayersInInputOrder ==
  /\ Len(result.layers) = Len(selections)
  /\ \A i \in Positions :
       /\ result.layers[i].id = selections[i].id
       /\ result.layers[i].label = selections[i].label
       /\ result.layers[i].color = selections[i].color
       /\ result.layers[i].isData = selections[i].isData
       /\ result.layers[i].countFullArea = selections[i].countFullArea

\* two regions that differ in every carried field, the list not in id order
LayersInInputOrderWitness ==
  /\ Len(selections) = 2
  /\ selections[1].id > selections[2].id
  /\ selections[1].label # selections[2].label
  /\ selections[1].countFullArea # selections[2].countFullArea
  /\ result.layers[1].totalPixels # result.layers[2].totalPixels

----------------------------------------------------------------------------
IsZero(ratio) == ratio.kind = "finite" /\ ratio.num = 0

(* C8: densityRatio is 0 whenever totalImagePixels is 0 and efficiencyRatio *)
(* is 0 whenever totalInkPixels is 0 (also when totalDataPixels > 0 because *)
(* a countFullArea data region covers only background pixels); no ratio is  *)
(* the outcome of a division by zero (infinite or NaN).                     *)
RatiosGuarded ==
  /\ result.totalImagePixels = 0 => IsZero(result.densityRatio)
  /\ result.totalInkPixels = 0 => IsZero(result.efficiencyRatio)
  /\ result.densityRatio.kind = "finite" /\ result.densityRatio.den # 0
  /\ result.efficiencyRatio.kind = "finite" /\ result.efficiencyRatio.den # 0

\* data pixels counted by full area on a raster without any ink
RatiosGuardedWitness ==
  /\ result.totalInkPixels = 0
  /\ result.totalImagePixels > 0
  /\ result.totalDataPixels > 0

----------------------------------------------------------------------------
InUnitInterval(ratio) ==
  /\ ratio.kind = "finite"
  /\ ratio.den > 0
  /\ 0 <= ratio.num
  /\ ratio.num <= ratio.den

NoFullArea == \A i \in Positions : ~selections[i].countFullArea

(* C9: for every raster with at least one pixel and every region list,     *)
(* densityRatio lies in [0,1] (totalDataPixels <= totalImagePixels); and   *)
(* whenever totalInkPixels > 0 and no region sets countFullArea,           *)
(* totalDataPixels + totalNonDataPixels <= totalInkPixels, so              *)
(* efficiencyRatio lies in [0,1].                                          *)
RatiosInUnitInterval ==
  result.totalImagePixels >= 1 =>
    /\ result.totalDataPixels <= result.totalImagePixels
    /\ InUnitInterval(result.densityRatio)
    /\ (result.totalInkPixels > 0 /\ NoFullArea) =>
         /\ result.totalDataPixels + result.totalNonDataPixels
              <= result.totalInkPixels
         /\ InUnitInterval(result.efficiencyRatio)

\* overlapping regions without full-area counting, holding data ink and
\* non-data ink, on a raster that has ink outside them too
RatiosInUnitIntervalWitness ==
  /\ Len(selections) = 2
  /\ NoFullArea
  /\ \E p \in Pixels(imageData) : Containing(p) = {1, 2}
  /\ result.totalDataPixels > 0
  /\ result.totalNonDataPixels > 0
  /\ result.totalDataPixels + result.totalNonDataPixels < result.totalInkPixels

----------------------------------------------------------------------------
(* C10: with an empty region list analyzeImage returns an empty layers     *)
(* list, totalDataPixels = 0, totalNonDataPixels = 0, densityRatio = 0 and *)
(* efficiencyRatio = 0, while totalInkPixels still equals the whole-image  *)
(* ink count.                                                              *)
EmptyListResult ==
  selections = <<>> =>
    /\ result.layers = <<>>
    /\ result.totalDataPixels = 0
    /\ result.totalNonDataPixels = 0
    /\ IsZero(result.densityRatio)
    /\ IsZero(result.efficiencyRatio)
    /\ result.totalImagePixels = imageData.width * imageData.height
    /\ result.totalInkPixels =
         Cardinality(InkPixelsOf(imageData, backgroundColor, inkThreshold))

\* the empty list analysed on a raster that has ink
EmptyListResultWitness ==
  /\ selections = <<>>
  /\ result.layers = <<>>
  /\ result.totalInkPixels > 0

----------------------------------------------------------------------------
(* Moving boxes.  A box dragged on the canvas (dragMode "move") keeps its  *)
(* extents and changes its corner by the pointer's displacement, which     *)
(* nothing limits to the image: a box can be left wholly outside the       *)
(* raster.  In this specification boxes are drawn, moved by one image      *)
(* width or one image height at a time, and switched to full-area          *)
(* counting.                                                               *)

Displacements ==
  {<<Width * Unit, 0>>, <<-(Width * Unit), 0>>,
   <<0, Height * Unit>>, <<0, -(Height * Unit)>>}

\* the box covers at least one pixel of the raster; the model drags only
\* such boxes, which keeps the corner coordinates bounded
CoversPixels(img, sel) ==
  LET bnd == PixelBounds(img, sel) IN bnd.x1 < bnd.x2 /\ bnd.y1 < bnd.y2

\* a box is dragged to another place and the list analysed
AnalyzeMoved ==
  \E i \in 1..Len(selections), d \in Displacements :
    /\ CoversPixels(imageData, selections[i])
    /\ Analyze([selections EXCEPT ![i] = [@ EXCEPT !.x = @ + d[1], !.y = @ + d[2]]])

MoveInit ==
  /\ imageData = Raster(Width, Height, "mixed")
  /\ selections = <<>>
  /\ backgroundColor \in BackgroundColors
  /\ inkThreshold \in InkThresholds
  /\ result = analyzeImage(imageData, selections, backgroundColor, inkThreshold)
  /\ ClassifierAtRest /\ FillAtRest /\ ComparisonAtRest
  /\ OthersAtRest

MoveNext ==
  \/ AnalyzeDrawn
  \/ AnalyzeMoved
  \/ AnalyzeToggled

MoveSpec == MoveInit /\ [][MoveNext]_vars

\* the rectangle has no point inside the raster: it lies to the left of
\* it, to the right of it, above it or below it
OutsideBuffer(img, sel) ==
  LET n == Normalized(sel)
  IN \/ n.x + n.width <= 0
     \/ n.x >= img.width * Unit
     \/ n.y + n.height <= 0
     \/ n.y >= img.height * Unit

\* the layers analyzeImage returns for the list without position i
LayersWithout(i) ==
  analyzeImage(imageData, RemoveAt(selections, i),
               backgroundColor, inkThreshold).layers

----------------------------------------------------------------------------
(* C11: a region whose rectangle lies entirely outside the raster (to the  *)
(* left, right, above or below) yields a layer with totalPixels = 0 and    *)
(* inkPixels = 0; it claims no pixel, and the layers of the other regions  *)
(* are the ones the list without it would get.                             *)
OutsideRegionIsEmpty ==
  \A i \in Positions :
    OutsideBuffer(imageData, selections[i]) =>
      /\ Len(result.layers) = Len(selections)
      /\ result.layers[i].id = selections[i].id
      /\ result.layers[i].totalPixels = 0
      /\ result.layers[i].inkPixels = 0
      /\ Claimed(i) = {}
      /\ RemoveAt(result.layers, i) = LayersWithout(i)

\* a full-area box right of the raster above a box that counts pixels
OutsideRegionIsEmptyWitness ==
  /\ Len(selections) = 2
  /\ OutsideBuffer(imageData, selections[2])
  /\ selections[2].x >= imageData.width * Unit
  /\ selections[2].countFullArea
  /\ result.layers[2].totalPixels = 0
  /\ result.layers[1].totalPixels > 0
  /\ result.layers[1].inkPixels > 0

----------------------------------------------------------------------------
(* The ink classifier on its own: isInkPixel(r, g, b, a, bgColor,          *)
(* inkThreshold) called on one RGBA sample.  The channels are bytes; the   *)
(* samples sit on and next to the alpha floor and the threshold distance.  *)

ChannelSamples == {0, 224, 225, 255}

AlphaSamples == {0, AlphaFloor - 1, AlphaFloor, 255}

PixelSamples ==
  {<<r, g, b, a>> : r \in ChannelSamples, g \in {0, 255}, b \in {0, 255},
                    a \in AlphaSamples}

\* the threshold slider runs from 1 to 100; 0 is what a caller may pass
ThresholdSamples == {0, 1, DefaultInkThreshold, DefaultInkThreshold + 1, 100}

\* isInkPixel(p.r, p.g, p.b, p.a, bgColor, threshold) is called
ClassifyPixel ==
  \E p \in PixelSamples, c \in BackgroundColors, t \in ThresholdSamples :
    /\ pixel' = p
    /\ backgroundColor' = c
    /\ inkThreshold' = t
    /\ isInk' = isInkPixel(p[1], p[2], p[3], p[4], c, t)
    /\ UNCHANGED <<imageData, selections, result, fillVars, comparisonVars>>
    /\ UNCHANGED <<exportVars, loopVars, pageVars>>

ClassifierInit ==
  /\ imageData = Raster(0, 0, "blank")
  /\ selections = <<>>
  /\ backgroundColor = [r |-> 255, g |-> 255, b |-> 255]
  /\ inkThreshold = DefaultInkThreshold
  /\ result = analyzeImage(imageData, selections, backgroundColor, inkThreshold)
  /\ pixel = <<255, 255, 255, 255>>
  /\ isInk = isInkPixel(pixel[1], pixel[2], pixel[3], pixel[4],
                        backgroundColor, inkThreshold)
  /\ FillAtRest /\ ComparisonAtRest
  /\ OthersAtRest

ClassifierNext == ClassifyPixel

ClassifierSpec == ClassifierInit /\ [][ClassifierNext]_vars

\* the square of the Euclidean distance between the sample and the background
SquaredDistanceToBackground ==
  (pixel[1] - backgroundColor.r) * (pixel[1] - backgroundColor.r)
  + (pixel[2] - backgroundColor.g) * (pixel[2] - backgroundColor.g)
  + (pixel[3] - backgroundColor.b) * (pixel[3] - backgroundColor.b)

----------------------------------------------------------------------------
----------------------------------------------------------------------------
(* The region grower: floodFill(imageData, startX, startY, tolerance,      *)
(* minRegionSize) of src/src/utils/floodFill.ts, one iteration of its      *)
(* work-list loop at a time.  visited holds the pairs <<x, y>> the code    *)
(* keys as "x,y"; stack is the work list, popped from its end.             *)

FillWidth == 6

FillHeight == 5

DefaultWandTolerance == 30

DefaultMinRegionSize == 10

padding == 2

Null == [kind |-> "null"]

FillRasters ==
  {Raster(FillWidth, FillHeight, "bands"),
   Raster(FillWidth, FillHeight, "notched"),
   Raster(FillWidth, FillHeight, "islands")}

\* the canvas passes Math.floor of the pointer's image coordinates, which
\* may lie off the image
SeedXs == (-1)..FillWidth

SeedYs == (-1)..FillHeight

Tolerances == {DefaultWandTolerance, DefaultWandTolerance - 1}

MinRegionSizes == {DefaultMinRegionSize, 1}

InBounds(img, x, y) == x >= 0 /\ x < img.width /\ y >= 0 /\ y < img.height

\* the index of the first byte of pixel (x, y)
PixelIndex(img, x, y) == (y * img.width + x) * 4

\* the four indexes read for the pixel starting at idx
ReadAt(idx) == idx..(idx + 3)

\* data[idx], data[idx + 1], data[idx + 2], data[idx + 3]; reading past
\* either end of the array gives undefined
ReadPixel(img, idx) ==
  IF idx >= 0 /\ idx + 4 <= Len(img.data)
  THEN [defined |-> TRUE, r |-> img.data[idx + 1], g |-> img.data[idx + 2],
        b |-> img.data[idx + 3], a |-> img.data[idx + 4]]
  ELSE [defined |-> FALSE, r |-> 0, g |-> 0, b |-> 0, a |-> 0]

\* a < 13; undefined < 13 is false
BelowFloor(px) == px.defined /\ px.a < AlphaFloor

\* colorDistance(r, g, b, targetR, targetG, targetB) > tolerance; a
\* distance computed from undefined is NaN and exceeds nothing
TooFar(px, target, tolerance) ==
  /\ px.defined /\ target.defined
  /\ DistanceExceeds(colorDistanceSq(px.r, px.g, px.b, target.r, target.g, target.b),
                     tolerance)

\* targetR, targetG, targetB, targetA of the call in progress
Target == ReadPixel(imageData, PixelIndex(imageData, call.startX, call.startY))

\* the value of an earlier call with these very arguments, if the call
\* that has just returned was one
Earlier(args) == IF pc = "done" /\ call = args THEN returned ELSE Pending

\* a variant of Enter that reads the seed without the bounds check
EnterUnchecked(startX, startY, tolerance, minRegionSize) ==
  LET args == [startX |-> startX, startY |-> startY, tolerance |-> tolerance,
               minRegionSize |-> minRegionSize]
      startIdx == PixelIndex(imageData, startX, startY)
      target == ReadPixel(imageData, startIdx)
  IN /\ pc \in {"idle", "done"}
     /\ call' = args
     /\ previous' = Earlier(args)
     /\ reads' = ReadAt(startIdx)
     /\ IF BelowFloor(target)
        THEN /\ returned' = Null /\ pc' = "done"
             /\ stack' = <<>> /\ visited' = {} /\ box' = <<>>
        ELSE /\ returned' = Pending /\ pc' = "loop"
             /\ visited' = {}
             /\ stack' = <<[x |-> startX, y |-> startY]>>
             /\ box' = [minX |-> startX, maxX |-> startX,
                        minY |-> startY, maxY |-> startY]
     /\ UNCHANGED <<analysisVars, classifierVars, comparisonVars>>
     /\ UNCHANGED <<exportVars, loopVars, pageVars>>

\* a variant of Enter whose visited set outlives the call
EnterKeepingVisited(startX, startY, tolerance, minRegionSize) ==
  LET args == [startX |-> startX, startY |-> startY, tolerance |-> tolerance,
               minRegionSize |-> minRegionSize]
      startIdx == PixelIndex(imageData, startX, startY)
      target == ReadPixel(imageData, startIdx)
  IN /\ pc \in {"idle", "done"}
     /\ call' = args
     /\ previous' = Earlier(args)
     /\ IF ~InBounds(imageData, startX, startY)
        THEN /\ returned' = Null /\ pc' = "done" /\ reads' = {}
             /\ stack' = <<>> /\ box' = <<>>
        ELSE /\ reads' = ReadAt(startIdx)
             /\ IF BelowFloor(target)
                THEN /\ returned' = Null /\ pc' = "done"
                     /\ stack' = <<>> /\ box' = <<>>
                ELSE /\ returned' = Pending /\ pc' = "loop"
                     /\ stack' = <<[x |-> startX, y |-> startY]>>
                     /\ box' = [minX |-> startX, maxX |-> startX,
                                minY |-> startY, maxY |-> startY]
     /\ UNCHANGED visited
     /\ UNCHANGED <<analysisVars, classifierVars, comparisonVars>>
     /\ UNCHANGED <<exportVars, loopVars, pageVars>>

\* floodFill is entered: the bounds check, the read of the seed, the test
\* of its alpha, and the creation of visited, stack and the bounding box
Enter(startX, startY, tolerance, minRegionSize) ==
  LET args == [startX |-> startX, startY |-> startY, tolerance |-> tolerance,
               minRegionSize |-> minRegionSize]
      startIdx == PixelIndex(imageData, startX, startY)
      target == ReadPixel(imageData, startIdx)
  IN /\ pc \in {"idle", "done"}
     /\ call' = args
     /\ previous' = Earlier(args)
     /\ IF ~InBounds(imageData, startX, startY)
        THEN /\ returned' = Null /\ pc' = "done" /\ reads' = {}
             /\ stack' = <<>> /\ visited' = {} /\ box' = <<>>
        ELSE /\ reads' = ReadAt(startIdx)
             /\ IF BelowFloor(target)
                THEN /\ returned' = Null /\ pc' = "done"
                     /\ stack' = <<>> /\ visited' = {} /\ box' = <<>>
                ELSE /\ returned' = Pending /\ pc' = "loop"
                     /\ visited' = {}
                     /\ stack' = <<[x |-> startX, y |-> startY]>>
                     /\ box' = [minX |-> startX, maxX |-> startX,
                                minY |-> startY, maxY |-> startY]
     /\ UNCHANGED <<analysisVars, classifierVars, comparisonVars>>
     /\ UNCHANGED <<exportVars, loopVars, pageVars>>

\* the canvas calls floodFill for a click of the magic wand
floodFill ==
  \E startX \in SeedXs, startY \in SeedYs, tolerance \in Tolerances,
     minRegionSize \in MinRegionSizes :
    Enter(startX, startY, tolerance, minRegionSize)

\* a variant of Neighbours that leaves out the pixel above
NeighboursNotAbove(x, y) ==
  <<[x |-> x + 1, y |-> y], [x |-> x - 1, y |-> y], [x |-> x, y |-> y + 1]>>

\* the neighbours pushed for an included pixel, in the order of the code
Neighbours(x, y) ==
  <<[x |-> x + 1, y |-> y], [x |-> x - 1, y |-> y],
    [x |-> x, y |-> y + 1], [x |-> x, y |-> y - 1]>>

\* a variant of Iterate that includes a pixel without adding it to visited
IterateNotMarking ==
  /\ pc = "loop"
  /\ stack # <<>>
  /\ LET point == stack[Len(stack)]
         rest == SubSeq(stack, 1, Len(stack) - 1)
         idx == PixelIndex(imageData, point.x, point.y)
         px == ReadPixel(imageData, idx)
     IN IF ~InBounds(imageData, point.x, point.y) \/ <<point.x, point.y>> \in visited
        THEN /\ stack' = rest
             /\ UNCHANGED <<visited, box, reads>>
        ELSE /\ reads' = reads \cup ReadAt(idx)
             /\ IF BelowFloor(px) \/ TooFar(px, Target, call.tolerance)
                THEN /\ stack' = rest
                     /\ UNCHANGED <<visited, box>>
                ELSE /\ UNCHANGED visited
                     /\ box' = [minX |-> Min(box.minX, point.x),
                                maxX |-> Max(box.maxX, point.x),
                                minY |-> Min(box.minY, point.y),
                                maxY |-> Max(box.maxY, point.y)]
                     /\ stack' = rest \o Neighbours(point.x, point.y)
  /\ UNCHANGED <<call, pc, returned, previous>>
  /\ UNCHANGED <<analysisVars, classifierVars, comparisonVars>>
  /\ UNCHANGED <<exportVars, loopVars, pageVars>>

\* one iteration of the while loop: a point is popped, then skipped or
\* included
Iterate ==
  /\ pc = "loop"
  /\ stack # <<>>
  /\ LET point == stack[Len(stack)]
         rest == SubSeq(stack, 1, Len(stack) - 1)
         idx == PixelIndex(imageData, point.x, point.y)
         px == ReadPixel(imageData, idx)
     IN IF ~InBounds(imageData, point.x, point.y) \/ <<point.x, point.y>> \in visited
        THEN /\ stack' = rest
             /\ UNCHANGED <<visited, box, reads>>
        ELSE /\ reads' = reads \cup ReadAt(idx)
             /\ IF BelowFloor(px) \/ TooFar(px, Target, call.tolerance)
                THEN /\ stack' = rest
                     /\ UNCHANGED <<visited, box>>
                ELSE /\ visited' = visited \cup {<<point.x, point.y>>}
                     /\ box' = [minX |-> Min(box.minX, point.x),
                                maxX |-> Max(box.maxX, point.x),
                                minY |-> Min(box.minY, point.y),
                                maxY |-> Max(box.maxY, point.y)]
                     /\ stack' = rest \o Neighbours(point.x, point.y)
  /\ UNCHANGED <<call, pc, returned, previous>>
  /\ UNCHANGED <<analysisVars, classifierVars, comparisonVars>>
  /\ UNCHANGED <<exportVars, loopVars, pageVars>>

\* a variant of TooSmall that also rejects a region of exactly the
\* minimum size
TooSmallOrEqual(size, minRegionSize) == size <= minRegionSize

\* visited.size < minRegionSize
TooSmall(size, minRegionSize) == size < minRegionSize

\* a variant of Padded that does not clamp to the raster
PaddedUnclamped(img, b) ==
  [kind |-> "box",
   minX |-> b.minX - padding, maxX |-> b.maxX + padding,
   minY |-> b.minY - padding, maxY |-> b.maxY + padding]

\* the bounding box returned: padded, then clamped to the raster
Padded(img, b) ==
  [kind |-> "box",
   minX |-> Max(0, b.minX - padding),
   maxX |-> Min(img.width - 1, b.maxX + padding),
   minY |-> Max(0, b.minY - padding),
   maxY |-> Min(img.height - 1, b.maxY + padding)]

\* the loop has ended: the size test and the return
Finish ==
  /\ pc = "loop"
  /\ stack = <<>>
  /\ returned' = IF TooSmall(Cardinality(visited), call.minRegionSize)
                 THEN Null
                 ELSE Padded(imageData, box)
  /\ pc' = "done"
  /\ UNCHANGED <<call, stack, visited, box, reads, previous>>
  /\ UNCHANGED <<analysisVars, classifierVars, comparisonVars>>
  /\ UNCHANGED <<exportVars, loopVars, pageVars>>

FillInit ==
  /\ imageData \in FillRasters
  /\ selections = <<>>
  /\ backgroundColor = [r |-> 255, g |-> 255, b |-> 255]
  /\ inkThreshold = DefaultInkThreshold
  /\ result = analyzeImage(imageData, selections, backgroundColor, inkThreshold)
  /\ ClassifierAtRest /\ FillAtRest /\ ComparisonAtRest
  /\ OthersAtRest

FillNext ==
  \/ floodFill
  \/ Iterate
  \/ Finish

FillSpec == FillInit /\ [][FillNext]_vars

----------------------------------------------------------------------------
(* Vocabulary of the region grower's properties: the region as a set of    *)
(* pixels, stated without a work list.                                     *)

Seed == <<call.startX, call.startY>>

\* the RGBA bytes of pixel p of the raster
Sample(p) ==
  LET k == 4 * (p[2] * imageData.width + p[1])
  IN <<imageData.data[k + 1], imageData.data[k + 2],
       imageData.data[k + 3], imageData.data[k + 4]>>

SeedInBuffer == Seed \in Pixels(imageData)

SeedOpaque == Sample(Seed)[4] >= 13

\* p is opaque enough and no further than the tolerance from the colour of
\* the seed
Alike(p) ==
  LET s == Sample(p)
      t == Sample(Seed)
  IN /\ s[4] >= 13
     /\ (s[1] - t[1]) * (s[1] - t[1]) + (s[2] - t[2]) * (s[2] - t[2])
          + (s[3] - t[3]) * (s[3] - t[3]) <= call.tolerance * call.tolerance

Eligible == {p \in Pixels(imageData) : Alike(p)}

\* p and q share an edge
Adjacent(p, q) ==
  \/ p[2] = q[2] /\ (p[1] = q[1] + 1 \/ q[1] = p[1] + 1)
  \/ p[1] = q[1] /\ (p[2] = q[2] + 1 \/ q[2] = p[2] + 1)

RECURSIVE Grow(_)
Grow(S) ==
  LET N == {p \in Eligible \ S : \E q \in S : Adjacent(p, q)}
  IN IF N = {} THEN S ELSE Grow(S \cup N)

\* the 4-connected component of the seed among the eligible pixels
Component == Grow({Seed} \cap Eligible)

\* floodFill has returned from a call that reached its loop
LoopFinished == pc = "done" /\ SeedInBuffer /\ SeedOpaque

Least(S) == CHOOSE m \in S : \A n \in S : m <= n

Greatest(S) == CHOOSE m \in S : \A n \in S : m >= n

\* the tight bounding box of the component
Tight ==
  [minX |-> Least({p[1] : p \in Component}),
   maxX |-> Greatest({p[1] : p \in Component}),
   minY |-> Least({p[2] : p \in Component}),
   maxY |-> Greatest({p[2] : p \in Component})]

\* the value floodFill is to return, as a function of its arguments alone
Expected ==
  IF ~SeedInBuffer THEN Null
  ELSE IF ~SeedOpaque THEN Null
  ELSE IF Cardinality(Component) < call.minRegionSize THEN Null
  ELSE [kind |-> "box",
        minX |-> Max(0, Tight.minX - 2),
        maxX |-> Min(imageData.width - 1, Tight.maxX + 2),
        minY |-> Max(0, Tight.minY - 2),
        maxY |-> Min(imageData.height - 1, Tight.maxY + 2)]

----------------------------------------------------------------------------
(* C13: when floodFill finishes, the visited set is exactly the            *)
(* 4-connected component of the seed within the in-bounds pixels whose     *)
(* alpha is >= 13 and whose colour distance to the seed's own colour is    *)
(* <= tolerance.                                                           *)
VisitedIsSeedComponent ==
  LoopFinished => visited = Component

\* a finished fill that stopped at a too-different pixel, at a transparent
\* or dark one, and left an eligible pixel unreached
VisitedIsSeedComponentWitness ==
  /\ LoopFinished
  /\ Cardinality(visited) >= 2
  /\ Eligible \ visited # {}
  /\ \E p \in Pixels(imageData) \ Eligible :
       Sample(p)[4] >= 13 /\ \E q \in visited : Adjacent(p, q)

----------------------------------------------------------------------------
(* C14: floodFill returns a rectangle only when the number of pixels       *)
(* included is at least minRegionSize (default 10); otherwise it returns   *)
(* null.                                                                   *)
BoxOnlyWhenLargeEnough ==
  pc = "done" =>
    /\ returned.kind \in {"box", "null"}
    /\ returned.kind = "box" <=>
         /\ SeedInBuffer
         /\ SeedOpaque
         /\ Cardinality(Component) >= call.minRegionSize

\* a region of exactly ten pixels at the default minimum
BoxOnlyWhenLargeEnoughWitness ==
  /\ pc = "done"
  /\ call.minRegionSize = 10
  /\ Cardinality(visited) = 10
  /\ returned.kind = "box"

----------------------------------------------------------------------------
(* C15: floodFill returns null, and reads no index outside the pixel       *)
(* buffer (none at all for a seed off the raster), when the seed           *)
(* coordinate is out of bounds or the seed pixel's alpha is below 13.      *)
NullWithoutReadingOutside ==
  pc = "done" /\ (~SeedInBuffer \/ ~SeedOpaque) =>
    /\ returned = Null
    /\ reads \subseteq 0..(Len(imageData.data) - 1)
    /\ ~SeedInBuffer => reads = {}

\* a seed one column past the right edge
NullWithoutReadingOutsideWitness ==
  /\ pc = "done"
  /\ call.startX = imageData.width
  /\ call.startY \in 0..(imageData.height - 1)
  /\ returned = Null
  /\ reads = {}

----------------------------------------------------------------------------
(* C16: on success floodFill returns the tight bounding box of the         *)
(* included pixels expanded by exactly 2 pixels on each side and then      *)
(* clamped to the raster, so 0 <= minX <= maxX <= width - 1 and            *)
(* 0 <= minY <= maxY <= height - 1, and the rectangle contains the seed    *)
(* and every included pixel.                                               *)
BoxIsPaddedClampedTightBox ==
  pc = "done" /\ returned.kind = "box" =>
    /\ returned.minX = Max(0, Tight.minX - 2)
    /\ returned.maxX = Min(imageData.width - 1, Tight.maxX + 2)
    /\ returned.minY = Max(0, Tight.minY - 2)
    /\ returned.maxY = Min(imageData.height - 1, Tight.maxY + 2)
    /\ 0 <= returned.minX /\ returned.minX <= returned.maxX
    /\ returned.maxX <= imageData.width - 1
    /\ 0 <= returned.minY /\ returned.minY <= returned.maxY
    /\ returned.maxY <= imageData.height - 1
    /\ \A p \in visited \cup {Seed} :
         /\ returned.minX <= p[1] /\ p[1] <= returned.maxX
         /\ returned.minY <= p[2] /\ p[2] <= returned.maxY

\* a box whose top-left corner is two pixels from the region and whose
\* bottom-right corner was clamped
BoxIsPaddedClampedTightBoxWitness ==
  /\ pc = "done"
  /\ returned.kind = "box"
  /\ returned.minX > 0
  /\ returned.minY > 0
  /\ box.maxX + 2 > imageData.width - 1
  /\ box.maxY + 2 > imageData.height - 1

----------------------------------------------------------------------------
(* C17: floodFill called twice with the same arguments returns the same    *)
(* value: the first call leaves nothing behind that the second observes.   *)
(* Every call returns the value determined by the raster, the seed, the    *)
(* tolerance and the minimum size through the seed's component, which      *)
(* does not mention the order in which neighbours are pushed.              *)
SameValueWhenRepeated ==
  pc = "done" =>
    /\ previous.kind # "pending" => returned = previous
    /\ returned = Expected

\* a repeated call that found a region of several pixels again
SameValueWhenRepeatedWitness ==
  /\ pc = "done"
  /\ previous.kind = "box"
  /\ returned = previous
  /\ Cardinality(visited) >= 2
  /\ returned.maxX < imageData.width - 1

----------------------------------------------------------------------------
(* The comparison engine: compareToReference(userResult, reference) of     *)
(* src/src/utils/comparison.ts, one call at a time.  Efficiency ratios are *)
(* carried as whole hundredths; a quotient of two of them is kept as the   *)
(* exact fraction, or as Infinity or NaN, as Quotient gives it.  Of the    *)
(* interpretation the grade and the three-way summary are carried; the     *)
(* insight and recommendation sentences are not.                           *)

\* q * k for a whole k > 0
Times(q, k) == [q EXCEPT !.num = @ * k]

PositiveInfinity == [kind |-> "Infinity", num |-> 1, den |-> 0]

\* q >= k for a whole k, as JavaScript compares: false for NaN, decided by
\* the sign for an infinity
AtLeast(q, k) ==
  IF q.kind = "NaN" THEN FALSE
  ELSE IF q.kind = "Infinity" THEN q.num > 0
  ELSE IF q.den > 0 THEN q.num >= k * q.den
  ELSE q.num <= k * q.den

\* q > k
Above(q, k) ==
  IF q.kind = "NaN" THEN FALSE
  ELSE IF q.kind = "Infinity" THEN q.num > 0
  ELSE IF q.den > 0 THEN q.num > k * q.den
  ELSE q.num < k * q.den

\* a variant of RelativeDifference without the test for a zero reference
RelativeDifferenceUnguarded(userEfficiency, referenceEfficiency) ==
  Times(Quotient(userEfficiency - referenceEfficiency, referenceEfficiency), 100)

\* relativeDifference of calculateMetrics
RelativeDifference(userEfficiency, referenceEfficiency) ==
  IF referenceEfficiency = 0
  THEN IF userEfficiency > 0 THEN PositiveInfinity ELSE ZeroRatio
  ELSE Times(Quotient(userEfficiency - referenceEfficiency, referenceEfficiency), 100)

calculateMetrics(userRes, referenceRes) ==
  LET userEfficiency == userRes.efficiencyRatio
      referenceEfficiency == referenceRes.efficiencyRatio
      absoluteDifference == userEfficiency - referenceEfficiency
  IN [absoluteDifference |-> absoluteDifference,
      relativeDifference |-> RelativeDifference(userEfficiency, referenceEfficiency),
      efficiencyGap |-> IF absoluteDifference < 0 THEN -absoluteDifference
                        ELSE absoluteDifference,
      userEfficiency |-> userEfficiency,
      referenceEfficiency |-> referenceEfficiency]

calculateBreakdown(userRes, referenceRes) ==
  LET dataInkDiff == userRes.totalDataPixels - referenceRes.totalDataPixels
      nonDataInkDiff == userRes.totalNonDataPixels - referenceRes.totalNonDataPixels
  IN [dataInkDiff |-> dataInkDiff,
      nonDataInkDiff |-> nonDataInkDiff,
      excessNonDataInkDifference |-> Max(0, nonDataInkDiff)]

\* a variant of Grade whose lower bounds are exclusive
GradeExclusive(relativeDifference) ==
  IF Above(relativeDifference, -10) THEN "excellent"
  ELSE IF Above(relativeDifference, -25) THEN "good"
  ELSE IF Above(relativeDifference, -40) THEN "fair"
  ELSE "poor"

\* the grade of generateInterpretation
Grade(relativeDifference) ==
  IF AtLeast(relativeDifference, -10) THEN "excellent"
  ELSE IF AtLeast(relativeDifference, -25) THEN "good"
  ELSE IF AtLeast(relativeDifference, -40) THEN "fair"
  ELSE "poor"

\* which of the three summary sentences is produced, and whether the
\* difference is printed as a percentage or as 'infinitely'
Summary(relativeDifference) ==
  [sentence |-> IF Above(relativeDifference, 5) THEN "exceeds"
                ELSE IF AtLeast(relativeDifference, -5) THEN "close"
                ELSE "lower",
   diffDesc |-> IF relativeDifference.kind = "finite" THEN "percent"
                ELSE "infinitely"]

generateInterpretation(metrics, breakdown, ref, userRes) ==
  [summary |-> Summary(metrics.relativeDifference),
   grade |-> Grade(metrics.relativeDifference)]

\* !userResult || !reference?.analysisResult
InvalidInput(userRes, ref) ==
  \/ ~userRes.present
  \/ ~ref.present
  \/ ~ref.analysisResult.present

Thrown(message) == [kind |-> "threw", error |-> message]

Returned(value) == [kind |-> "returned", value |-> value]

\* the ComparisonResult built from valid inputs
Compared(userRes, ref) ==
  LET metrics == calculateMetrics(userRes, ref.analysisResult)
      breakdown == calculateBreakdown(userRes, ref.analysisResult)
  IN [userResult |-> userRes,
      referenceResult |-> ref.analysisResult,
      reference |-> ref,
      metrics |-> metrics,
      breakdown |-> breakdown,
      interpretation |-> generateInterpretation(metrics, breakdown, ref, userRes)]

\* a variant of compareToReference that compares empty results in place
\* of absent ones
compareToReferenceLenient(userRes, ref) ==
  LET empty == [present |-> TRUE, efficiencyRatio |-> 0,
                totalDataPixels |-> 0, totalNonDataPixels |-> 0]
  IN IF InvalidInput(userRes, ref)
     THEN Returned(Compared(empty,
                            [present |-> TRUE, name |-> "none", type |-> "custom",
                             analysisResult |-> empty, metadata |-> Absent]))
     ELSE Returned(Compared(userRes, ref))

compareToReference(userRes, ref) ==
  IF InvalidInput(userRes, ref)
  THEN Thrown("Cannot perform comparison with invalid input results.")
  ELSE Returned(Compared(userRes, ref))

\* efficiency ratios in hundredths: on and next to the grade boundaries of
\* references of 0.80 and 1.00, beyond 1, and one below zero
UserEfficiencies ==
  {-10, 0, 40, 47, 48, 59, 60, 71, 72, 74, 75, 80, 89, 90, 100, 120}

ReferenceEfficiencies == {0, 80, 100}

UserResults ==
  {[present |-> TRUE, efficiencyRatio |-> e,
    totalDataPixels |-> d, totalNonDataPixels |-> 100 - d] :
     e \in UserEfficiencies, d \in {30, 60}}
  \cup {Absent}

Metadata ==
  {[present |-> TRUE, dataInkPixels |-> 50, totalInkPixels |-> 100,
    redundancyPixels |-> 0, chartjunkPixels |-> 0],
   Absent}

References ==
  {[present |-> TRUE, name |-> "Tufte bar chart", type |-> "ideal",
    analysisResult |-> a, metadata |-> m] :
     a \in {[present |-> TRUE, efficiencyRatio |-> e,
             totalDataPixels |-> 50, totalNonDataPixels |-> 50] :
               e \in ReferenceEfficiencies} \cup {Absent},
     m \in Metadata}
  \cup {Absent}

\* compareToReference(u, ref) is called
Compare ==
  \E u \in UserResults, ref \in References :
    /\ userResult' = u
    /\ reference' = ref
    /\ outcome' = compareToReference(u, ref)
    /\ UNCHANGED <<analysisVars, classifierVars, fillVars>>
    /\ UNCHANGED <<exportVars, loopVars, pageVars>>

CompareInit ==
  /\ imageData = Raster(0, 0, "blank")
  /\ selections = <<>>
  /\ backgroundColor = [r |-> 255, g |-> 255, b |-> 255]
  /\ inkThreshold = DefaultInkThreshold
  /\ result = analyzeImage(imageData, selections, backgroundColor, inkThreshold)
  /\ ClassifierAtRest /\ FillAtRest /\ ComparisonAtRest
  /\ OthersAtRest

CompareNext == Compare

CompareSpec == CompareInit /\ [][CompareNext]_vars

----------------------------------------------------------------------------
(* Vocabulary of the comparison properties. *)

\* the relativeDifference of the ComparisonResult returned
Difference == outcome.value.metrics.relativeDifference

\* the fraction or infinity d is at least the whole number k
Reaches(d, k) ==
  \/ d.kind = "Infinity" /\ d.num > 0
  \/ d.kind = "finite" /\ d.den > 0 /\ d.num >= k * d.den

\* one of the two inputs compareToReference needs is missing
InputAbsent ==
  \/ ~userResult.present
  \/ ~reference.present
  \/ ~reference.analysisResult.present

----------------------------------------------------------------------------
(* C18: relativeDifference is +Infinity when referenceEfficiency = 0 and   *)
(* userEfficiency > 0, is 0 when referenceEfficiency = 0 and               *)
(* userEfficiency <= 0, and otherwise is the number                        *)
(* ((userEfficiency - referenceEfficiency) / referenceEfficiency) * 100    *)
(* itself; it is not NaN for non-negative efficiencies.                    *)
RelativeDifferenceAsStated ==
  outcome.kind = "returned" =>
    LET u == userResult.efficiencyRatio
        r == reference.analysisResult.efficiencyRatio
    IN /\ r = 0 /\ u > 0 => Difference.kind = "Infinity" /\ Difference.num > 0
       /\ r = 0 /\ u <= 0 => Difference.kind = "finite" /\ Difference.num = 0
       /\ r # 0 =>
            /\ Difference.kind = "finite"
            /\ Difference.den # 0
            /\ Difference.num * r = (u - r) * 100 * Difference.den
       /\ u >= 0 /\ r >= 0 => Difference.kind # "NaN"

\* a positive efficiency compared with a reference of zero
RelativeDifferenceAsStatedWitness ==
  /\ outcome.kind = "returned"
  /\ reference.analysisResult.efficiencyRatio = 0
  /\ userResult.efficiencyRatio > 0
  /\ Difference.kind = "Infinity"

----------------------------------------------------------------------------
(* C19: the grade is excellent iff relativeDifference >= -10, good iff     *)
(* -25 <= relativeDifference < -10, fair iff -40 <= relativeDifference <   *)
(* -25, poor iff relativeDifference < -40; whenever the user's efficiency  *)
(* is at least the reference's (+Infinity included) the grade is           *)
(* excellent, and 0.40 against 0.80 grades poor.                           *)
GradeByInclusiveBounds ==
  outcome.kind = "returned" =>
    LET u == userResult.efficiencyRatio
        r == reference.analysisResult.efficiencyRatio
        grade == outcome.value.interpretation.grade
    IN /\ grade \in {"excellent", "good", "fair", "poor"}
       /\ grade = "excellent" <=> Reaches(Difference, -10)
       /\ grade = "good" <=> Reaches(Difference, -25) /\ ~Reaches(Difference, -10)
       /\ grade = "fair" <=> Reaches(Difference, -40) /\ ~Reaches(Difference, -25)
       /\ grade = "poor" <=> ~Reaches(Difference, -40)
       /\ u >= r => grade = "excellent"
       /\ u = 40 /\ r = 80 => grade = "poor"

\* an efficiency exactly ten percent below the reference's
GradeByInclusiveBoundsWitness ==
  /\ outcome.kind = "returned"
  /\ Difference.kind = "finite"
  /\ Difference.num = -10 * Difference.den
  /\ outcome.value.interpretation.grade = "excellent"

----------------------------------------------------------------------------
(* C20: compareToReference ends with an explicit error, and returns no     *)
(* ComparisonResult, whenever the user result is absent or the             *)
(* reference's analysis result is absent; the outcome of the call is the   *)
(* error, not a result with zero-valued metrics.                           *)
FailsOnAbsentInput ==
  outcome.kind # "none" /\ InputAbsent =>
    /\ outcome.kind = "threw"
    /\ DOMAIN outcome = {"kind", "error"}
    /\ outcome.error # ""

\* a reference without an analysis result, compared with a present result
FailsOnAbsentInputWitness ==
  /\ outcome.kind = "threw"
  /\ userResult.present
  /\ reference.present
  /\ ~reference.analysisResult.present

----------------------------------------------------------------------------
(* C21: compareToReference ends with an explicit error when the            *)
(* reference's metadata is missing, even if the reference's analysisResult *)
(* is present.  (The code never reads reference.metadata: the call         *)
(* returns a ComparisonResult.)                                            *)
FailsOnAbsentMetadata ==
  outcome.kind # "none" /\ reference.present =>
    (~reference.metadata.present => outcome.kind = "threw")

----------------------------------------------------------------------------
(* The CSV export: exportToCSV(result) of src/src/utils/analysis.ts.  A    *)
(* text is a sequence of pieces: the comma, the double quote and the line  *)
(* feed are pieces of their own, and any other piece stands for a run of   *)
(* characters that has none of those three in it.                          *)

Comma == ","

Quote == "\""

LineFeed == "\n"

\* field.replace(/"/g, '""')
RECURSIVE DoubleQuotes(_)
DoubleQuotes(text) ==
  IF text = <<>> THEN <<>>
  ELSE (IF Head(text) = Quote THEN <<Quote, Quote>> ELSE <<Head(text)>>)
       \o DoubleQuotes(Tail(text))

\* `"${text.replace(/"/g, '""')}"`
Quoted(text) == <<Quote>> \o DoubleQuotes(text) \o <<Quote>>

\* text.includes(piece)
Includes(text, piece) == \E k \in 1..Len(text) : text[k] = piece

\* the quoting applied to every field of every row when the rows are
\* joined; an empty field is falsy and is returned as it is
QuotedIfNeeded(field) ==
  IF field # <<>> /\ (Includes(field, Comma) \/ Includes(field, Quote)
                       \/ Includes(field, LineFeed))
  THEN Quoted(field)
  ELSE field

\* number.toString() of a pixel count
CountText(n) == <<ToString(n)>>

\* ratio.toFixed(4): the integer part, the point and four decimals
FixedText(ratio) ==
  IF ratio.kind = "NaN" THEN <<"NaN">>
  ELSE IF ratio.kind = "Infinity" THEN <<"Infinity">>
  ELSE LET scaled == (2 * 10000 * ratio.num + ratio.den) \div (2 * ratio.den)
       IN <<ToString(scaled \div 10000), ".",
            ToString((scaled \div 1000) % 10), ToString((scaled \div 100) % 10),
            ToString((scaled \div 10) % 10), ToString(scaled % 10)>>

Headers ==
  <<<<"Layer ID">>, <<"Label">>, <<"Classification">>,
    <<"Total Pixels (Exclusive)">>, <<"Ink Pixels (Exclusive)">>,
    <<"Count Full Area">>>>

\* the row of one layer: id and label are put between quotes here already
LayerRow(layer) ==
  <<Quoted(layer.id),
    Quoted(layer.label),
    IF layer.isData THEN <<"Data">> ELSE <<"Non-Data">>,
    CountText(layer.totalPixels),
    CountText(layer.inkPixels),
    IF layer.countFullArea THEN <<"Yes">> ELSE <<"No">>>>

SummaryRows(res) ==
  <<<<>>,
    <<<<"Summary">>>>,
    <<<<"Total Image Pixels">>, CountText(res.totalImagePixels)>>,
    <<<<"Total Ink Pixels (Entire Image)">>, CountText(res.totalInkPixels)>>,
    <<<<"Total Data Pixels (Sum of Layers)">>, CountText(res.totalDataPixels)>>,
    <<<<"Total Non-Data Pixels (Sum of Layers)">>, CountText(res.totalNonDataPixels)>>,
    <<<<"Density Ratio (Data/Image)">>, FixedText(res.densityRatio)>>,
    <<<<"Efficiency Ratio (Data/Total Ink)">>, FixedText(res.efficiencyRatio)>>>>

\* texts.join(separator)
RECURSIVE Join(_, _)
Join(texts, separator) ==
  IF texts = <<>> THEN <<>>
  ELSE IF Len(texts) = 1 THEN texts[1]
  ELSE texts[1] \o <<separator>> \o Join(Tail(texts), separator)

\* row.map(field => ...).join(",")
RowText(row) == Join([k \in 1..Len(row) |-> QuotedIfNeeded(row[k])], Comma)

exportToCSV(res) ==
  LET rows == [k \in 1..Len(res.layers) |-> LayerRow(res.layers[k])]
      allRows == <<Headers>> \o rows \o SummaryRows(res)
  IN Join([k \in 1..Len(allRows) |-> RowText(allRows[k])], LineFeed)

\* identifiers and labels: plain, with a comma, between quotes, with a
\* line feed
TextSamples ==
  {<<"sel-1">>, <<"a", Comma, "b">>, <<Quote, "a", Quote>>, <<"a", LineFeed, "b">>}

\* a box with a given identifier and label is added (a label is typed in
\* the classification table, an identifier comes with an imported
\* session) and the list analysed
AnalyzeLabelled ==
  /\ Len(selections) < MaxSelections
  /\ \E id \in TextSamples, label \in TextSamples, c \in Components :
       Analyze(Append(selections,
                 [id |-> id, x |-> 0, y |-> 0,
                  width |-> Width * Unit, height |-> Height * Unit,
                  label |-> label, color |-> c.color, isData |-> c.isData,
                  countFullArea |-> FALSE]))

\* the results panel exports the latest result
ExportCSV ==
  /\ csv' = exportToCSV(result)
  /\ UNCHANGED <<analysisVars, classifierVars, fillVars, comparisonVars,
                 loopVars, pageVars>>

ExportInit ==
  /\ imageData = Raster(Width, Height, "mixed")
  /\ selections = <<>>
  /\ backgroundColor = [r |-> 255, g |-> 255, b |-> 255]
  /\ inkThreshold = DefaultInkThreshold
  /\ result = analyzeImage(imageData, selections, backgroundColor, inkThreshold)
  /\ ClassifierAtRest /\ FillAtRest /\ ComparisonAtRest
  /\ OthersAtRest

ExportNext ==
  \/ AnalyzeLabelled
  \/ ExportCSV

ExportSpec == ExportInit /\ [][ExportNext]_vars

----------------------------------------------------------------------------
(* A reader of CSV as commonly written (RFC 4180): fields are separated by *)
(* commas and records by line feeds; a field that starts with a double     *)
(* quote runs to the matching double quote, and inside it two double       *)
(* quotes stand for one.                                                   *)

\* the first position from k on that holds a comma or a line feed, or the
\* position after the text
NextSeparator(text, k) ==
  IF \E j \in k..Len(text) : text[j] \in {Comma, LineFeed}
  THEN CHOOSE j \in k..Len(text) :
         /\ text[j] \in {Comma, LineFeed}
         /\ \A i \in k..(j - 1) : text[i] \notin {Comma, LineFeed}
  ELSE Len(text) + 1

\* whether the double quote at position j closes the quoted field opened at
\* position k: it is not followed by a double quote and the double quotes
\* between the two come in pairs
Closes(text, k, j) ==
  /\ text[j] = Quote
  /\ (j = Len(text) \/ text[j + 1] # Quote)
  /\ Cardinality({i \in (k + 1)..(j - 1) : text[i] = Quote}) % 2 = 0

\* the position of the double quote that closes the quoted field opened
\* at position k, or the position after the text
ClosingQuote(text, k) ==
  IF \E j \in (k + 1)..Len(text) : Closes(text, k, j)
  THEN CHOOSE j \in (k + 1)..Len(text) :
         /\ Closes(text, k, j)
         /\ \A i \in (k + 1)..(j - 1) : ~Closes(text, k, i)
  ELSE Len(text) + 1

\* inside a quoted field two double quotes stand for one
RECURSIVE Unquoted(_)
Unquoted(text) ==
  IF text = <<>> THEN <<>>
  ELSE IF Head(text) = Quote /\ Len(text) > 1
    THEN <<Quote>> \o Unquoted(Tail(Tail(text)))
  ELSE <<Head(text)>> \o Unquoted(Tail(text))

\* reads text field by field from position k on; record and records are
\* what has been read so far
RECURSIVE ReadCSV(_, _, _, _)
ReadCSV(text, k, record, records) ==
  LET opens == k <= Len(text) /\ text[k] = Quote
      closing == ClosingQuote(text, k)
      end == NextSeparator(text, IF opens THEN closing + 1 ELSE k)
      field == IF opens
               THEN Unquoted(SubSeq(text, k + 1, closing - 1))
                    \o SubSeq(text, closing + 1, end - 1)
               ELSE SubSeq(text, k, end - 1)
  IN IF end > Len(text) THEN Append(records, Append(record, field))
     ELSE IF text[end] = Comma
       THEN ReadCSV(text, end + 1, Append(record, field), records)
     ELSE ReadCSV(text, end + 1, <<>>, Append(records, Append(record, field)))

ParsedCSV == ReadCSV(csv, 1, <<>>, <<>>)

----------------------------------------------------------------------------
(* C22: parsing each layer row of the exported CSV with a standard CSV     *)
(* parser returns the layer's original id and label exactly, whether they  *)
(* have no special character or contain commas, quotes or line feeds.      *)
(* (The code quotes id and label when it builds the row and quotes them    *)
(* again when it joins the row, so a parser returns them between quotes.)  *)
CsvGivesBackIdAndLabel ==
  csv = exportToCSV(result) =>
    \A k \in 1..Len(result.layers) :
      /\ Len(ParsedCSV) > k
      /\ Len(ParsedCSV[k + 1]) = 6
      /\ ParsedCSV[k + 1][1] = result.layers[k].id
      /\ ParsedCSV[k + 1][2] = result.layers[k].label

----------------------------------------------------------------------------
(* analyzeImage step by step: the entry (the locals are created and the    *)
(* whole image scanned for ink), one step for each iteration of the loop   *)
(* over the selections, and the return.  selections, imageData,            *)
(* backgroundColor and inkThreshold are the arguments of the call in       *)
(* progress, or of the latest call; result is the value the latest         *)
(* completed call returned.                                                *)

\* the value returned by the latest call if it was made with the same
\* arguments as the call being entered
EarlierResult(sels, bgColor) ==
  IF step = "done" /\ selections = sels /\ backgroundColor = bgColor
  THEN [kind |-> "result", value |-> result]
  ELSE Pending

\* a variant of Start that keeps processedPixels from one call to the next
StartKeepingProcessed(sels, bgColor) ==
  /\ step \in {"idle", "done"}
  /\ earlier' = EarlierResult(sels, bgColor)
  /\ selections' = sels
  /\ backgroundColor' = bgColor
  /\ inkTotal' = InkScan(imageData, bgColor, inkThreshold, 0, 0, 0)
  /\ layerList' = <<>>
  /\ index' = Len(sels)
  /\ step' = "loop"
  /\ UNCHANGED <<processed, imageData, inkThreshold, result>>
  /\ UNCHANGED <<classifierVars, fillVars, comparisonVars, exportVars, pageVars>>

\* analyzeImage is entered: totalImagePixels, a new processedPixels, the
\* scan for totalInkPixels, a new layers, and i = selections.length - 1
Start(sels, bgColor) ==
  /\ step \in {"idle", "done"}
  /\ earlier' = EarlierResult(sels, bgColor)
  /\ selections' = sels
  /\ backgroundColor' = bgColor
  /\ inkTotal' = InkScan(imageData, bgColor, inkThreshold, 0, 0, 0)
  /\ processed' = {}
  /\ layerList' = <<>>
  /\ index' = Len(sels)
  /\ step' = "loop"
  /\ UNCHANGED <<imageData, inkThreshold, result>>
  /\ UNCHANGED <<classifierVars, fillVars, comparisonVars, exportVars, pageVars>>

\* the call is made after a box has been drawn
StartDrawn ==
  /\ Len(selections) < MaxSelections
  /\ \E xs \in DrawnXSpans, ys \in DrawnYSpans, c \in Components :
       Start(Append(selections,
               [id |-> FreshId(selections),
                x |-> xs[1], y |-> ys[1], width |-> xs[2], height |-> ys[2],
                label |-> c.name, color |-> c.color, isData |-> c.isData,
                countFullArea |-> FALSE]),
             backgroundColor)

\* the call is made after Count Full Area has been toggled
StartToggled ==
  \E i \in 1..Len(selections) :
    Start([selections EXCEPT ![i].countFullArea = ~@], backgroundColor)

\* the call is made after the last selection has been deleted
StartDeleted ==
  /\ selections # <<>>
  /\ Start(SubSeq(selections, 1, Len(selections) - 1), backgroundColor)

\* the call is made again with the arguments of the call that has returned
StartRepeated ==
  /\ step = "done"
  /\ Start(selections, backgroundColor)

\* a variant of Region that takes the selection off the end of the list it
\* was given (selections.pop())
RegionPopping ==
  /\ step = "loop"
  /\ index > 0
  /\ LET sel == selections[index]
         bnd == PixelBounds(imageData, sel)
         acc == LayerScan(imageData, sel, bnd, backgroundColor, inkThreshold,
                          bnd.y1, bnd.x1,
                          [processedPixels |-> processed,
                           layerTotalPixels |-> 0,
                           layerInkPixels |-> 0])
         layer == [id |-> sel.id, label |-> sel.label, color |-> sel.color,
                   isData |-> sel.isData,
                   totalPixels |-> acc.layerTotalPixels,
                   inkPixels |-> acc.layerInkPixels,
                   countFullArea |-> sel.countFullArea]
     IN /\ processed' = acc.processedPixels
        /\ layerList' = Unshift(layerList, layer)
        /\ index' = index - 1
        /\ selections' = SubSeq(selections, 1, index - 1)
  /\ UNCHANGED <<inkTotal, step, earlier>>
  /\ UNCHANGED <<imageData, backgroundColor, inkThreshold, result>>
  /\ UNCHANGED <<classifierVars, fillVars, comparisonVars, exportVars, pageVars>>

\* one iteration of the loop over the selections: the bounds, the pixel
\* loop, layers.unshift and i--
Region ==
  /\ step = "loop"
  /\ index > 0
  /\ LET sel == selections[index]
         bnd == PixelBounds(imageData, sel)
         acc == LayerScan(imageData, sel, bnd, backgroundColor, inkThreshold,
                          bnd.y1, bnd.x1,
                          [processedPixels |-> processed,
                           layerTotalPixels |-> 0,
                           layerInkPixels |-> 0])
         layer == [id |-> sel.id, label |-> sel.label, color |-> sel.color,
                   isData |-> sel.isData,
                   totalPixels |-> acc.layerTotalPixels,
                   inkPixels |-> acc.layerInkPixels,
                   countFullArea |-> sel.countFullArea]
     IN /\ processed' = acc.processedPixels
        /\ layerList' = Unshift(layerList, layer)
        /\ index' = index - 1
  /\ UNCHANGED <<inkTotal, step, earlier>>
  /\ UNCHANGED analysisVars
  /\ UNCHANGED <<classifierVars, fillVars, comparisonVars, exportVars, pageVars>>

\* the loop has ended: the totals, the two ratios and the return
Return ==
  /\ step = "loop"
  /\ index = 0
  /\ LET totalImagePixels == imageData.width * imageData.height
         totals == Aggregate(layerList, 1, [data |-> 0, nonData |-> 0])
     IN result' = [layers |-> layerList,
                   totalImagePixels |-> totalImagePixels,
                   totalInkPixels |-> inkTotal,
                   totalDataPixels |-> totals.data,
                   totalNonDataPixels |-> totals.nonData,
                   densityRatio |-> GuardedRatio(totals.data, totalImagePixels),
                   efficiencyRatio |-> GuardedRatio(totals.data, inkTotal)]
  /\ step' = "done"
  /\ UNCHANGED <<processed, layerList, index, inkTotal, earlier>>
  /\ UNCHANGED <<imageData, selections, backgroundColor, inkThreshold>>
  /\ UNCHANGED <<classifierVars, fillVars, comparisonVars, exportVars, pageVars>>

LoopInit ==
  /\ imageData \in Rasters
  /\ selections = <<>>
  /\ backgroundColor \in BackgroundColors
  /\ inkThreshold \in InkThresholds
  /\ result = analyzeImage(imageData, selections, backgroundColor, inkThreshold)
  /\ ClassifierAtRest /\ FillAtRest /\ ComparisonAtRest
  /\ OthersAtRest

LoopNext ==
  \/ StartDrawn
  \/ StartToggled
  \/ StartDeleted
  \/ StartRepeated
  \/ Region
  \/ Return

LoopSpec == LoopInit /\ [][LoopNext]_vars

----------------------------------------------------------------------------
(* C23: analyzeImage never mutates its inputs: from its entry to its       *)
(* return the selections list keeps its length, its order and every field  *)
(* of every box, and the raster (with the background colour and the        *)
(* threshold) is not written.                                              *)
InputsNotMutated ==
  [][step = "loop" =>
       /\ selections' = selections
       /\ imageData' = imageData
       /\ backgroundColor' = backgroundColor
       /\ inkThreshold' = inkThreshold]_vars

\* a call with two selections has run through both iterations and returned
InputsNotMutatedWitness ==
  /\ step = "done"
  /\ Len(selections) = 2
  /\ Len(result.layers) = 2
  /\ processed # {}

----------------------------------------------------------------------------
(* C25: analyzeImage holds no state across calls: a call made again with   *)
(* the arguments of the call before it returns the same result, and every  *)
(* result is the one the four arguments determine.                         *)
SameResultWhenRepeated ==
  step = "done" =>
    /\ earlier.kind = "result" => result = earlier.value
    /\ result = analyzeImage(imageData, selections, backgroundColor, inkThreshold)

\* a repeated call with overlapping selections that claimed pixels
SameResultWhenRepeatedWitness ==
  /\ step = "done"
  /\ earlier.kind = "result"
  /\ result = earlier.value
  /\ Len(selections) = 2
  /\ result.layers[1].totalPixels > 0
  /\ result.layers[2].totalPixels > 0

----------------------------------------------------------------------------
(* C26: at every step of the loop over the selections, and in the result   *)
(* returned: each layer has 0 <= inkPixels <= totalPixels, every pixel key *)
(* is held once in processedPixels, and the layers' totalPixels add up to  *)
(* the size of processedPixels, which is at most totalImagePixels.         *)
RECURSIVE SumOfTotals(_, _)
SumOfTotals(layers, k) ==
  IF k > Len(layers) THEN 0
  ELSE layers[k].totalPixels + SumOfTotals(layers, k + 1)

CountsBounded(layers) ==
  \A k \in 1..Len(layers) :
    0 <= layers[k].inkPixels /\ layers[k].inkPixels <= layers[k].totalPixels

LoopCountsConsistent ==
  /\ step \in {"loop", "done"} =>
       /\ CountsBounded(layerList)
       /\ processed \subseteq Pixels(imageData)
       /\ SumOfTotals(layerList, 1) = Cardinality(processed)
       /\ Cardinality(processed) <= imageData.width * imageData.height
  /\ step = "done" =>
       /\ CountsBounded(result.layers)
       /\ SumOfTotals(result.layers, 1) = Cardinality(processed)
       /\ Cardinality(processed) <= result.totalImagePixels

\* the loop is between two overlapping selections: the upper one has
\* claimed pixels the lower one reaches too
LoopCountsConsistentWitness ==
  /\ step = "loop"
  /\ index = 1
  /\ Len(layerList) = 1
  /\ layerList[1].totalPixels > layerList[1].inkPixels
  /\ ClampedRect(imageData, selections[1]) \cap processed # {}
  /\ ~(ClampedRect(imageData, selections[1]) \subseteq processed)

----------------------------------------------------------------------------
(* C24: floodFill terminates.  While the loop runs, a step either pops a   *)
(* point and leaves visited alone, or pops a point, adds one pixel that    *)
(* was not in visited and pushes four points; visited holds pixels of the  *)
(* raster only.  So the work still to do gets smaller with every step,     *)
(* and the work list is eventually empty and the call returns.             *)

\* floodFill runs to completion once called: its loop has no await and
\* nothing else runs in between
FairFillSpec == FillSpec /\ WF_vars(Iterate) /\ WF_vars(Finish)

\* the entries on the work list, and five for every pixel of the raster
\* not yet in visited
WorkLeft ==
  Len(stack) + 5 * (imageData.width * imageData.height - Cardinality(visited))

LoopStepBounded ==
  pc = "loop" /\ pc' = "loop" =>
    /\ visited \subseteq visited'
    /\ visited' \subseteq Pixels(imageData)
    /\ Cardinality(visited') <= Cardinality(visited) + 1
    /\ Len(stack') <= Len(stack) - 1 + 4
    /\ visited' = visited => Len(stack') = Len(stack) - 1
    /\ WorkLeft' < WorkLeft

FloodFillTerminates ==
  /\ [][LoopStepBounded]_vars
  /\ (pc = "loop") ~> (pc = "done" /\ stack = <<>>)

\* a call that included several pixels, skipped popped points already in
\* visited, and returned with an empty work list
FloodFillTerminatesWitness ==
  /\ pc = "done"
  /\ stack = <<>>
  /\ Cardinality(visited) >= 4
  /\ returned.kind = "box"

----------------------------------------------------------------------------
(* The magic wand of the canvas: a click calls floodFill and, when a       *)
(* bounding box comes back that is more than one pixel wide and high, a    *)
(* selection is made of it and appended to the list.                       *)

\* a variant of WandBox whose extents are maxX - minX and maxY - minY
WandBoxWithoutLastPixel(bbox, id, component) ==
  [id |-> id,
   x |-> bbox.minX * Unit, y |-> bbox.minY * Unit,
   width |-> (bbox.maxX - bbox.minX) * Unit,
   height |-> (bbox.maxY - bbox.minY) * Unit,
   label |-> component.name, color |-> component.color,
   isData |-> component.isData, countFullArea |-> FALSE]

\* newBox
WandBox(bbox, id, component) ==
  [id |-> id,
   x |-> bbox.minX * Unit, y |-> bbox.minY * Unit,
   width |-> (bbox.maxX - bbox.minX + 1) * Unit,
   height |-> (bbox.maxY - bbox.minY + 1) * Unit,
   label |-> component.name, color |-> component.color,
   isData |-> component.isData, countFullArea |-> FALSE]

\* bbox && bbox.maxX > bbox.minX && bbox.maxY > bbox.minY
Significant(bbox) ==
  bbox.kind = "box" /\ bbox.maxX > bbox.minX /\ bbox.maxY > bbox.minY

\* a click with the magic wand: floodFill is called with the floored image
\* coordinates of the pointer and the tolerance of the toolbar
WandClick ==
  /\ pc = "done" => ~Significant(returned)
  /\ Len(selections) < MaxSelections
  /\ \E startX \in SeedXs, startY \in SeedYs, tolerance \in Tolerances :
       Enter(startX, startY, tolerance, DefaultMinRegionSize)

\* floodFill has returned a significant box: the selection is appended
WandSelects ==
  /\ pc = "done"
  /\ Significant(returned)
  /\ \E component \in Components :
       selections' = Append(selections,
                            WandBox(returned, FreshId(selections), component))
  /\ pc' = "idle"
  /\ UNCHANGED <<call, stack, visited, box, reads, returned, previous>>
  /\ UNCHANGED <<imageData, backgroundColor, inkThreshold, result>>
  /\ UNCHANGED <<classifierVars, comparisonVars, exportVars, loopVars, pageVars>>

WandNext ==
  \/ WandClick
  \/ Iterate
  \/ Finish
  \/ WandSelects

WandSpec == FillInit /\ [][WandNext]_vars

----------------------------------------------------------------------------
(* C27: every selection the magic wand makes from a box floodFill returned *)
(* lies inside the image, and its clamped pixel rectangle contains every   *)
(* pixel floodFill included.                                               *)
WandBoxCoversRegion ==
  /\ \A i \in 1..Len(selections) : InsideBuffer(imageData, selections[i])
  /\ pc = "idle" /\ selections # <<>> =>
       visited \subseteq ClampedRect(imageData, selections[Len(selections)])

\* a selection made of a region of at least the minimum size whose padded
\* box is cut at the left, top and bottom edges of the raster and ends
\* before its right edge
WandBoxCoversRegionWitness ==
  /\ pc = "idle"
  /\ selections # <<>>
  /\ Cardinality(visited) >= DefaultMinRegionSize
  /\ box.minX < padding
  /\ box.maxY = imageData.height - 1
  /\ returned.maxX = box.maxX + padding
  /\ selections[Len(selections)].width < imageData.width * Unit

----------------------------------------------------------------------------
(* The Index page: the image, the selections, the undo history and the     *)
(* analysis run from the toolbar.  An image is known by the number of its  *)
(* upload (0 stands for null).  What a handler sets is committed in one   *)
(* render, and the effect that keeps the history runs after that render    *)
(* and before the next event, so effectDue tells that a render has changed *)
(* selections, history or historyIndex and the effect has not run yet.     *)
(* selections !== history[historyIndex]                                    *)
(* compares references in the code; the arrays are compared by value here, *)
(* which gives the same outcome because the effect pushes only when the    *)
(* JSON texts differ.  historyIndex counts from 0 as in the code.          *)

MaxUploads == 2

MaxHistory == 4

\* the boxes drawn on the canvas, each more than 5 pixels wide and high:
\* a strip for the data component and a column for the other
PageBoxes ==
  {[x |-> 0, y |-> 0, width |-> 12 * Unit, height |-> 6 * Unit,
    component |-> [name |-> "Bars", isData |-> TRUE, color |-> "#3b82f6"]],
   [x |-> 6 * Unit, y |-> 0, width |-> 6 * Unit, height |-> 12 * Unit,
    component |-> [name |-> "Gridlines", isData |-> FALSE, color |-> "#94a3b8"]]}

\* the part of the page's state the undo and redo handlers and the history
\* effect read and set
Page ==
  [selections |-> pageSelections, history |-> history,
   historyIndex |-> historyIndex,
   isUpdatingFromHistory |-> isUpdatingFromHistory,
   analysisResult |-> analysisResult]

\* the render that commits p
Becomes(p) ==
  /\ pageSelections' = p.selections
  /\ history' = p.history
  /\ historyIndex' = p.historyIndex
  /\ isUpdatingFromHistory' = p.isUpdatingFromHistory
  /\ analysisResult' = p.analysisResult

\* a variant of handleUndo without the test historyIndex > 0
handleUndoUnguarded(p) ==
  [p EXCEPT !.isUpdatingFromHistory = TRUE,
            !.historyIndex = p.historyIndex - 1,
            !.selections = IF p.historyIndex > 0 THEN p.history[p.historyIndex]
                           ELSE <<>>,
            !.analysisResult = Absent]

handleUndo(p) ==
  IF p.historyIndex > 0
  THEN [p EXCEPT !.isUpdatingFromHistory = TRUE,
                 !.historyIndex = p.historyIndex - 1,
                 !.selections = p.history[p.historyIndex],
                 !.analysisResult = Absent]
  ELSE p

handleRedo(p) ==
  IF p.historyIndex < Len(p.history) - 1
  THEN [p EXCEPT !.isUpdatingFromHistory = TRUE,
                 !.historyIndex = p.historyIndex + 1,
                 !.selections = p.history[p.historyIndex + 2],
                 !.analysisResult = Absent]
  ELSE p

\* a variant of historyEffect that pushes onto the whole history
historyEffectKeepingLater(p) ==
  LET pushes == /\ ~p.isUpdatingFromHistory
                /\ p.selections # p.history[p.historyIndex + 1]
  IN [p EXCEPT !.history = IF pushes THEN Append(p.history, p.selections) ELSE @,
               !.historyIndex = IF pushes THEN Len(p.history) ELSE @,
               !.isUpdatingFromHistory = FALSE]

\* the effect on [selections, history, historyIndex]
historyEffect(p) ==
  LET newHistory == SubSeq(p.history, 1, p.historyIndex + 1)
      pushes == /\ ~p.isUpdatingFromHistory
                /\ p.selections # p.history[p.historyIndex + 1]
                /\ newHistory[Len(newHistory)] # p.selections
  IN [p EXCEPT !.history = IF pushes THEN Append(newHistory, p.selections) ELSE @,
               !.historyIndex = IF pushes THEN Len(newHistory) ELSE @,
               !.isUpdatingFromHistory = FALSE]

\* the effect runs after a render that changed one of its dependencies;
\* when it sets the history the render it causes runs it once more
HistoryEffect ==
  /\ effectDue
  /\ Becomes(historyEffect(Page))
  /\ effectDue' = (historyEffect(Page).history # history)
  /\ UNCHANGED <<imageUrl, pageImageData, isAnalyzing, timers, opened>>
  /\ UNCHANGED <<analysisVars, classifierVars, fillVars, comparisonVars,
                 exportVars, loopVars>>

\* Ctrl+Z or the toolbar's undo
Undo ==
  /\ ~effectDue
  /\ Becomes(handleUndo(Page))
  /\ effectDue' = (handleUndo(Page) # Page)
  /\ UNCHANGED <<imageUrl, pageImageData, isAnalyzing, timers, opened>>
  /\ UNCHANGED <<analysisVars, classifierVars, fillVars, comparisonVars,
                 exportVars, loopVars>>

\* Ctrl+Shift+Z or the toolbar's redo
Redo ==
  /\ ~effectDue
  /\ Becomes(handleRedo(Page))
  /\ effectDue' = (handleRedo(Page) # Page)
  /\ UNCHANGED <<imageUrl, pageImageData, isAnalyzing, timers, opened>>
  /\ UNCHANGED <<analysisVars, classifierVars, fillVars, comparisonVars,
                 exportVars, loopVars>>

\* the canvas or the classification table hands a new list to setSelections
SetSelections(sels) ==
  /\ ~effectDue
  /\ historyIndex + 1 < MaxHistory
  /\ pageSelections' = sels
  /\ effectDue' = TRUE
  /\ UNCHANGED <<imageUrl, pageImageData, history, historyIndex,
                 isUpdatingFromHistory, analysisResult, isAnalyzing, timers,
                 opened>>
  /\ UNCHANGED <<analysisVars, classifierVars, fillVars, comparisonVars,
                 exportVars, loopVars>>

\* the list after box b has been drawn
Drawn(sels, b) ==
  Append(sels, [id |-> FreshId(sels),
                x |-> b.x, y |-> b.y, width |-> b.width, height |-> b.height,
                label |-> b.component.name, color |-> b.component.color,
                isData |-> b.component.isData, countFullArea |-> FALSE])

\* a box is drawn on the image
Draw ==
  /\ pageImageData # 0
  /\ Len(pageSelections) < MaxSelections
  /\ \E b \in PageBoxes : SetSelections(Drawn(pageSelections, b))

\* a selection is deleted
Delete ==
  \E i \in 1..Len(pageSelections) : SetSelections(RemoveAt(pageSelections, i))

\* handleImageUpload
Upload ==
  /\ ~effectDue
  /\ opened < MaxUploads
  /\ opened' = opened + 1
  /\ imageUrl' = opened + 1
  /\ pageImageData' = 0
  /\ pageSelections' = <<>>
  /\ analysisResult' = Absent
  /\ history' = <<<<>>>>
  /\ historyIndex' = 0
  /\ effectDue' = TRUE
  /\ UNCHANGED <<isUpdatingFromHistory, isAnalyzing, timers>>
  /\ UNCHANGED <<analysisVars, classifierVars, fillVars, comparisonVars,
                 exportVars, loopVars>>

\* handleImageReady: the canvas has loaded the image of the current url
\* (a load for an earlier url is cancelled)
ImageReady ==
  /\ ~effectDue
  /\ imageUrl # 0
  /\ pageImageData = 0
  /\ pageImageData' = imageUrl
  /\ UNCHANGED <<imageUrl, pageSelections, history, historyIndex,
                 isUpdatingFromHistory, effectDue, analysisResult, isAnalyzing,
                 timers, opened>>
  /\ UNCHANGED <<analysisVars, classifierVars, fillVars, comparisonVars,
                 exportVars, loopVars>>

\* handleClearAll
ClearAll ==
  /\ ~effectDue
  /\ imageUrl # 0
  /\ imageUrl' = 0
  /\ pageImageData' = 0
  /\ pageSelections' = <<>>
  /\ analysisResult' = Absent
  /\ history' = <<<<>>>>
  /\ historyIndex' = 0
  /\ effectDue' = TRUE
  /\ UNCHANGED <<isUpdatingFromHistory, isAnalyzing, timers, opened>>
  /\ UNCHANGED <<analysisVars, classifierVars, fillVars, comparisonVars,
                 exportVars, loopVars>>

\* handleImportSelections for a file without an image url, read while an
\* image is shown: the file's selections replace the list and the history
ImportSelections ==
  /\ ~effectDue
  /\ imageUrl # 0
  /\ \E loaded \in {<<>>} \cup {Drawn(<<>>, b) : b \in PageBoxes} :
       /\ pageSelections' = loaded
       /\ history' = <<loaded>>
  /\ historyIndex' = 0
  /\ analysisResult' = Absent
  /\ effectDue' = TRUE
  /\ UNCHANGED <<imageUrl, pageImageData, isUpdatingFromHistory, isAnalyzing,
                 timers, opened>>
  /\ UNCHANGED <<analysisVars, classifierVars, fillVars, comparisonVars,
                 exportVars, loopVars>>

\* handleRunAnalysis: the button is disabled while isAnalyzing; the
\* callback given to setTimeout keeps the imageData and the selections of
\* this render
RunAnalysis ==
  /\ ~effectDue
  /\ ~isAnalyzing
  /\ pageImageData # 0
  /\ pageSelections # <<>>
  /\ isAnalyzing' = TRUE
  /\ timers' = Append(timers, [image |-> pageImageData,
                               selections |-> pageSelections])
  /\ UNCHANGED <<imageUrl, pageImageData, pageSelections, history,
                 historyIndex, isUpdatingFromHistory, effectDue,
                 analysisResult, opened>>
  /\ UNCHANGED <<analysisVars, classifierVars, fillVars, comparisonVars,
                 exportVars, loopVars>>

\* the callback runs: analyzeImage on what it kept, setAnalysisResult and,
\* in the finally block, setIsAnalyzing(false).  The result is known here
\* by the image and the list it was computed from, which determine it.
\* analyzeImage does not throw for the lists drawn here, so the catch block
\* is not entered.  The callback reads and sets nothing the history effect
\* reads or sets, so it is the same whether it runs before or after an
\* effect that is due.
TimerFires ==
  /\ timers # <<>>
  /\ analysisResult' = [present |-> TRUE, image |-> Head(timers).image,
                        selections |-> Head(timers).selections]
  /\ isAnalyzing' = FALSE
  /\ timers' = Tail(timers)
  /\ UNCHANGED <<imageUrl, pageImageData, pageSelections, history,
                 historyIndex, isUpdatingFromHistory, effectDue, opened>>
  /\ UNCHANGED <<analysisVars, classifierVars, fillVars, comparisonVars,
                 exportVars, loopVars>>

PageInit ==
  /\ imageData = Raster(Width, Height, "mixed")
  /\ selections = <<>>
  /\ backgroundColor = [r |-> 255, g |-> 255, b |-> 255]
  /\ inkThreshold = DefaultInkThreshold
  /\ result = analyzeImage(imageData, selections, backgroundColor, inkThreshold)
  /\ ClassifierAtRest /\ FillAtRest /\ ComparisonAtRest
  /\ OthersAtRest

PageNext ==
  \/ Upload
  \/ ImageReady
  \/ Draw
  \/ Delete
  \/ Undo
  \/ Redo
  \/ HistoryEffect
  \/ ImportSelections
  \/ ClearAll
  \/ RunAnalysis
  \/ TimerFires

PageSpec == PageInit /\ [][PageNext]_vars

\* the event loop runs the callback of a timer that is due, and an effect
\* that is due runs
FairPageSpec == PageSpec /\ WF_vars(TimerFires) /\ WF_vars(HistoryEffect)

----------------------------------------------------------------------------
(* C28: the history is never empty, historyIndex is a position of it, and  *)
(* once the history effect has run the entry at historyIndex is the        *)
(* current list of selections.                                             *)
HistoryHoldsSelections ==
  /\ Len(history) >= 1
  /\ 0 <= historyIndex
  /\ historyIndex <= Len(history) - 1
  /\ ~effectDue => history[historyIndex + 1] = pageSelections

\* after two edits and an undo the page shows the entry in the middle of
\* a history of three
HistoryHoldsSelectionsWitness ==
  /\ ~effectDue
  /\ Len(history) = 3
  /\ historyIndex = 1
  /\ pageSelections # <<>>
  /\ history[2] = pageSelections

----------------------------------------------------------------------------
(* C29: undo followed by redo gives back the selections and historyIndex   *)
(* and leaves the history as it was; undo at index 0 and redo at the last  *)
(* index change nothing; an edit made after an undo drops the entries      *)
(* after historyIndex and then appends the edited list.                    *)

\* the page once the effect has run after a render (its second run, after
\* the render it caused itself, changes nothing more)
Settled(p) == historyEffect(historyEffect(p))

UndoRedoRestores ==
  ~effectDue =>
    LET undone == Settled(handleUndo(Page))
        redone == Settled(handleRedo(undone))
    IN /\ historyIndex > 0 =>
            /\ undone.historyIndex = historyIndex - 1
            /\ undone.selections = history[historyIndex]
            /\ undone.history = history
            /\ redone.selections = pageSelections
            /\ redone.historyIndex = historyIndex
            /\ redone.history = history
       /\ historyIndex = 0 => handleUndo(Page) = Page
       /\ historyIndex = Len(history) - 1 => handleRedo(Page) = Page
       /\ historyIndex > 0 =>
            \A b \in PageBoxes :
              Len(undone.selections) < MaxSelections =>
                LET edited == Drawn(undone.selections, b)
                    after == Settled([undone EXCEPT !.selections = edited])
                IN /\ after.history =
                        Append(SubSeq(history, 1, historyIndex), edited)
                   /\ after.historyIndex = historyIndex
                   /\ after.selections = edited

\* the page after an undo, with entries after historyIndex that an edit
\* would drop
UndoRedoRestoresWitness ==
  /\ ~effectDue
  /\ historyIndex = 1
  /\ Len(history) = 3
  /\ history[3] # history[2]
  /\ pageSelections = history[2]
  /\ Len(pageSelections) < MaxSelections

----------------------------------------------------------------------------
(* C30: a result that is shown belongs to the image that is loaded: the    *)
(* callback handleRunAnalysis defers does not install a result computed    *)
(* from an image that has been replaced or cleared since the click.        *)
(* (Nothing cancels the timer and the callback does not look at the        *)
(* current image, so a result of the earlier image is installed.)          *)
ResultOfLoadedImage ==
  analysisResult.present =>
    /\ imageUrl # 0
    /\ analysisResult.image = imageUrl

\* C30, second part: isAnalyzing is set back to false after every run
AnalyzingIsReset == isAnalyzing ~> ~isAnalyzing

====
